---- MODULE Spec2Model ----
(***************************************************************************)
(* Provider registry and beacon-parsing engine of puppeteer-plus-martech.  *)
(*                                                                         *)
(* Strings that the code takes apart (URLs, query-parameter names, raw     *)
(* bodies) are sequences of atoms: an atom is a maximal run of letters and *)
(* digits, a host name, or a single punctuation character.  Strings the    *)
(* code only builds or copies are TLA+ strings.  No atom of the URLs used  *)
(* here has a literal of a provider pattern as a proper prefix or suffix,  *)
(* so matching atom by atom is matching character by character.            *)
(***************************************************************************)
EXTENDS Integers, Sequences, FiniteSets, TLC

VARIABLES providers, defaultPatterns, defaultPatternRegex, added, call,
          page, arrays, returned, emitted, tool,
          browser, browsers, inits, cleanup

vars == <<providers, defaultPatterns, defaultPatternRegex, added, call,
          page, arrays, returned, emitted, tool,
          browser, browsers, inits, cleanup>>

(* The registry with the call made on it, the page of a tool invocation,
   and the browser of the server: each part leaves the others alone. *)
Engine == <<providers, defaultPatterns, defaultPatternRegex, added, call>>
PageVars == <<page, arrays, returned, emitted, tool>>
BrowserVars == <<browser, browsers, inits, cleanup>>

(* Largest number of addProvider calls in a behaviour. *)
MaxAdds == 2

(***************************************************************************)
(* Strings                                                                 *)
(***************************************************************************)
RECURSIVE Join(_)
Join(atoms) == IF atoms = <<>> THEN "" ELSE Head(atoms) \o Join(Tail(atoms))

(* The atoms that hold an upper-case letter, with their lower-case form. *)
UpperAtoms == [a \in {"GTM", "JS", "EE", "V1", "INTERACT"} |->
                 CASE a = "GTM" -> "gtm"
                   [] a = "JS" -> "js"
                   [] a = "EE" -> "ee"
                   [] a = "V1" -> "v1"
                   [] a = "INTERACT" -> "interact"]

(* Atoms made of the letters a-z only. *)
LowerWords == {"gtm", "js", "gtag", "ns", "html", "ee", "edge", "interact",
               "collect", "page", "tr", "pixel", "track", "events", "user",
               "tag", "min", "x"}

(* Canonicalisation of an atom under the "i" flag. *)
Fold(a, ic) == IF ic /\ a \in DOMAIN UpperAtoms THEN UpperAtoms[a] ELSE a

(***************************************************************************)
(* Regular expressions: the fragment the provider patterns use             *)
(***************************************************************************)
Lit(a) == [t |-> "lit", a |-> a]
Cat(rs) == [t |-> "cat", rs |-> rs]
Alt(rs) == [t |-> "alt", rs |-> rs]
Opt(r) == [t |-> "opt", r |-> r]
LowerPlus == [t |-> "lower+"]
AnyStar == [t |-> "any*"]
Eol == [t |-> "eol"]
Empty == [t |-> "empty"]
Form(f) == [t |-> "form", f |-> f]
NotSlashPlus == [t |-> "[^/]+"]

(* The atoms of the URLs used here that have a form a pattern asks for: a
   host that ends with a domain, or a file name built around an id. *)
AtomsOfForm(f) ==
    CASE f = "*.google-analytics.com" -> {"www.google-analytics.com"}
      [] f = "*stats.g.doubleclick.net" -> {"stats.g.doubleclick.net"}
      [] f = "*analytics.google.com" -> {"analytics.google.com"}
      [] f = "launch-[a-zA-Z0-9]+" -> {"launch-abc1"}
      [] f = "launch-[a-f0-9]+" -> {"launch-abc1"}
      [] f \in {"launch-[a-zA-Z0-9]+-development", "launch-[a-zA-Z0-9]+-staging",
                "launch-[a-f0-9]+-development", "launch-[a-f0-9]+-staging"} -> {}

RECURSIVE Ends(_, _, _, _)
RECURSIVE EndsCat(_, _, _, _)
(* The positions where a match of r that starts at position i of s can end. *)
Ends(r, s, i, ic) ==
    CASE r.t = "empty" -> {i}
      [] r.t = "lit" -> IF i <= Len(s) /\ Fold(s[i], ic) = Fold(r.a, ic)
                        THEN {i + 1} ELSE {}
      [] r.t = "lower+" -> IF i <= Len(s) /\ Fold(s[i], ic) \in LowerWords
                           THEN {i + 1} ELSE {}
      [] r.t = "form" -> IF i <= Len(s) /\ Fold(s[i], ic) \in AtomsOfForm(r.f)
                         THEN {i + 1} ELSE {}
      [] r.t = "[^/]+" -> {j \in (i + 1) .. (Len(s) + 1) :
                              \A h \in i .. (j - 1) : s[h] # "/"}
      [] r.t = "any*" -> i .. (Len(s) + 1)
      [] r.t = "eol" -> IF i = Len(s) + 1 THEN {i} ELSE {}
      [] r.t = "opt" -> {i} \cup Ends(r.r, s, i, ic)
      [] r.t = "alt" -> UNION {Ends(r.rs[k], s, i, ic) : k \in 1 .. Len(r.rs)}
      [] r.t = "cat" -> EndsCat(r.rs, s, {i}, ic)

EndsCat(rs, s, from, ic) ==
    IF rs = <<>> THEN from
    ELSE EndsCat(Tail(rs), s, UNION {Ends(Head(rs), s, i, ic) : i \in from}, ic)

(* RegExp.prototype.test on a regular expression without the g or y flag. *)
Test(regex, s) == \E i \in 1 .. (Len(s) + 1) : Ends(regex.re, s, i, regex.ic) # {}

(* new RegExp(sources.join("|"), flags): the join of no source is the empty
   pattern, which matches every string. *)
NewRegExp(sources, ic) ==
    [re |-> IF sources = <<>> THEN Empty ELSE Alt(sources), ic |-> ic]

(***************************************************************************)
(* URLs                                                                    *)
(***************************************************************************)
Param(k, v) == [k |-> k, v |-> v]

MkUrl(abs, host, path, query) ==
    [abs |-> abs, host |-> host, path |-> path, query |-> query]

RECURSIVE QueryAtoms(_)
QueryAtoms(query) ==
    IF query = <<>> THEN <<>>
    ELSE Head(query).k \o <<"=", Head(query).v>>
         \o (IF Len(query) > 1 THEN <<"&">> ELSE <<>>)
         \o QueryAtoms(Tail(query))

(* The raw string of a request URL. *)
Raw(u) ==
    (IF u.abs THEN <<"https", ":">> ELSE <<>>)
    \o <<"/", "/", u.host>> \o u.path
    \o (IF u.query = <<>> THEN <<>> ELSE <<"?">> \o QueryAtoms(u.query))

GtmPath == <<"/", "gtm", ".", "js">>
InteractPath == <<"/", "ee", "/", "v1", "/", "interact">>

GtmUrl == MkUrl(TRUE, "www.googletagmanager.com", GtmPath,
                <<Param(<<"id">>, "GTM-ABC123")>>)
GtmHiddenUrl == MkUrl(TRUE, "www.googletagmanager.com", GtmPath,
                <<Param(<<"requestType">>, "x"), Param(<<"zz">>, "1"),
                  Param(<<"l">>, "dataLayer"), Param(<<"zz">>, "2")>>)
GtmUpperUrl == MkUrl(TRUE, "www.googletagmanager.com", <<"/", "GTM", ".", "js">>,
                <<Param(<<"id">>, "GTM-ABC123")>>)
GtmInteractUrl == MkUrl(TRUE, "www.googletagmanager.com", GtmPath \o InteractPath,
                <<Param(<<"id">>, "GTM-1"), Param(<<"constructor">>, "c")>>)
RelativeUrl == MkUrl(FALSE, "www.googletagmanager.com", GtmPath \o InteractPath,
                <<Param(<<"id">>, "GTM-1")>>)
InteractUrl == MkUrl(TRUE, "edge.example.com", InteractPath,
                <<Param(<<"configId">>, "abc")>>)
PageUrl == MkUrl(TRUE, "example.com", <<"/", "page">>,
                <<Param(<<"a">>, "1"), Param(<<"constructor">>, "2")>>)
BarePageUrl == MkUrl(TRUE, "example.com", <<"/", "page">>, <<>>)
RelativePageUrl == MkUrl(FALSE, "example.com", <<"/", "page">>,
                <<Param(<<"a">>, "1")>>)

Urls == {GtmUrl, GtmHiddenUrl, GtmUpperUrl, GtmInteractUrl, RelativeUrl,
         InteractUrl, PageUrl, BarePageUrl, RelativePageUrl}

(* Requests for a container of Google Tag Manager, by the script asked for:
   gtag.js, a script with the container id in its name, the no-script
   frame, and a container script below another script. *)
GtagUrl == MkUrl(TRUE, "www.googletagmanager.com", <<"/", "gtag", "/", "js">>,
                <<Param(<<"id">>, "G-ABC123")>>)
GtmPathIdUrl == MkUrl(TRUE, "www.googletagmanager.com",
                <<"/", "gtm", "-", "ABC123", ".", "js">>, <<>>)
NsUrl == MkUrl(TRUE, "www.googletagmanager.com", <<"/", "ns", ".", "html">>,
                <<Param(<<"id">>, "GTM-ABC123")>>)
GtmNestedUrl == MkUrl(TRUE, "www.googletagmanager.com",
                <<"/", "x", ".", "js", "/", "gtm", "-", "ABC123", ".", "js">>, <<>>)

ContainerUrls == {GtmUrl, GtagUrl, GtmPathIdUrl, NsUrl, GtmNestedUrl}

(* Requests of the pixels whose hooks decode JSON carried in a parameter. *)
FbUrl(cd, ud) ==
    MkUrl(TRUE, "www.facebook.com", <<"/", "tr">>,
          <<Param(<<"id">>, "999"), Param(<<"ev">>, "Purchase"),
            Param(<<"cd", "[", "value", "]">>, "49.99"),
            Param(<<"cd">>, cd), Param(<<"ud">>, ud),
            Param(<<"requestType">>, "q")>>)
FbPageViewUrl ==
    MkUrl(TRUE, "www.facebook.com", <<"/", "tr", "/">>,
          <<Param(<<"id">>, "999"), Param(<<"ev">>, ""),
            Param(<<"cd", "[", "a", "]", "[", "b", "]">>, "1")>>)
TkUrl(data) ==
    MkUrl(TRUE, "analytics.tiktok.com", <<"/", "i18n", "/", "pixel", "/", "events">>,
          <<Param(<<"event">>, "ViewContent"), Param(<<"data">>, data),
            Param(<<"properties", ".", "color">>, "red")>>)
TkTrackUrl ==
    MkUrl(TRUE, "analytics.tiktok.com",
          <<"/", "pixel", "/", "track", "/", "PX1", "/", "x">>, <<>>)
PinUrl(ed) ==
    MkUrl(TRUE, "ct.pinterest.com", <<"/", "v3", "/", "user", "/", "T1", "/">>,
          <<Param(<<"event">>, "checkout"), Param(<<"ed">>, ed),
            Param(<<"custom_data", "[", "x", "]">>, "1")>>)
(* Requests of providers that are matched here but not parsed. *)
GaUrl == MkUrl(TRUE, "www.google-analytics.com", <<"/", "collect">>,
               <<Param(<<"v">>, "1")>>)
(* Universal Analytics hits: a page view with a custom dimension, a screen
   view, and a hit without a hit type. *)
GaPageViewUrl ==
    MkUrl(TRUE, "www.google-analytics.com", <<"/", "collect">>,
          <<Param(<<"v">>, "1"), Param(<<"t">>, "pageview"),
            Param(<<"tid">>, "UA-1"), Param(<<"cd", "1">>, "x"),
            Param(<<"pr", "1", "nm">>, "shoe")>>)
GaScreenViewUrl ==
    MkUrl(TRUE, "www.google-analytics.com", <<"/", "collect">>,
          <<Param(<<"v">>, "1"), Param(<<"t">>, "screenview"),
            Param(<<"il", "1", "pi", "2", "cd", "12">>, "y")>>)
ClarityUrl == MkUrl(TRUE, "www.clarity.ms", <<"/", "collect">>, <<>>)
LaunchUrl == MkUrl(TRUE, "assets.adobedtm.com",
                   <<"/", "launch-abc1", ".", "min", ".", "js">>, <<>>)
RelativePixelUrl ==
    MkUrl(FALSE, "", <<"/", "tr">>, <<Param(<<"cd", "[", "value", "]">>, "1")>>)

(***************************************************************************)
(* Providers                                                               *)
(***************************************************************************)
BaseProvider == "BaseProvider"
GoogleTagManagerProvider == "GoogleTagManagerProvider"
AdobeWebSdkProvider == "AdobeWebSdkProvider"
FacebookPixelProvider == "FacebookPixelProvider"
TikTokProvider == "TikTokProvider"
PinterestProvider == "PinterestProvider"

GoogleAnalytics4Provider == "GoogleAnalytics4Provider"
GoogleAnalyticsProvider == "GoogleAnalyticsProvider"
AdobeAnalyticsProvider == "AdobeAnalyticsProvider"
AdobeLaunchProvider == "AdobeLaunchProvider"
LinkedInProvider == "LinkedInProvider"
TwitterProvider == "TwitterProvider"
MicrosoftClarityProvider == "MicrosoftClarityProvider"

(* The providers initializeProviders registers, in its order. *)
InitialProviders ==
    <<GoogleAnalytics4Provider, GoogleAnalyticsProvider, AdobeAnalyticsProvider,
      FacebookPixelProvider, GoogleTagManagerProvider, AdobeLaunchProvider,
      TikTokProvider, PinterestProvider, LinkedInProvider, TwitterProvider,
      MicrosoftClarityProvider>>

(* The two registered classes whose files are not part of the sources read
   here: their identity and the requests they match. *)
Unlisted == {GoogleAnalytics4Provider, AdobeAnalyticsProvider}
UnlistedKey(p) ==
    CASE p = GoogleAnalytics4Provider -> "GOOGLEANALYTICS4"
      [] p = AdobeAnalyticsProvider -> "ADOBEANALYTICS"
UnlistedName(p) ==
    CASE p = GoogleAnalytics4Provider -> "Google Analytics 4"
      [] p = AdobeAnalyticsProvider -> "Adobe Analytics"
UnlistedType(p) == "analytics"
(* GA4: a /g/collect request to a Google Analytics host; Adobe Analytics:
   a path through /b/ss/. *)
UnlistedPattern(p) ==
    CASE p = GoogleAnalytics4Provider ->
            Cat(<<Alt(<<Form("*.google-analytics.com"), Form("*analytics.google.com")>>),
                  Lit("/"), Lit("g"), Lit("/"), Lit("collect")>>)
      [] p = AdobeAnalyticsProvider ->
            Cat(<<Lit("/"), Lit("b"), Lit("/"), Lit("ss"), Lit("/")>>)

(* The classes whose parseUrl is called directly. *)
ProviderClasses == {BaseProvider, GoogleTagManagerProvider, AdobeWebSdkProvider,
                    FacebookPixelProvider, TikTokProvider, PinterestProvider}

(* The classes a caller registers; BaseProvider is the registry's fallback. *)
Registrable == {GoogleTagManagerProvider, AdobeWebSdkProvider}

ProviderKey(p) ==
    CASE p = GoogleTagManagerProvider -> "GOOGLETAGMANAGER"
      [] p = AdobeWebSdkProvider -> "ADOBEWEBSDK"
      [] p = FacebookPixelProvider -> "FACEBOOKPIXEL"
      [] p = TikTokProvider -> "TIKTOK"
      [] p = PinterestProvider -> "PINTEREST"
      [] p = GoogleAnalyticsProvider -> "GOOGLEANALYTICS"
      [] p = AdobeLaunchProvider -> "ADOBELAUNCH"
      [] p = LinkedInProvider -> "LINKEDIN"
      [] p = TwitterProvider -> "TWITTER"
      [] p = MicrosoftClarityProvider -> "MICROSOFTCLARITY"
      [] p \in Unlisted -> UnlistedKey(p)
      [] p = BaseProvider -> ""

ProviderName(p) ==
    CASE p = GoogleTagManagerProvider -> "Google Tag Manager"
      [] p = AdobeWebSdkProvider -> "Adobe Experience Platform Web SDK"
      [] p = FacebookPixelProvider -> "Facebook Pixel"
      [] p = TikTokProvider -> "TikTok Pixel"
      [] p = PinterestProvider -> "Pinterest Tag"
      [] p = GoogleAnalyticsProvider -> "Google Analytics (Universal)"
      [] p = AdobeLaunchProvider -> "Adobe Experience Platform Launch"
      [] p = LinkedInProvider -> "LinkedIn Insight Tag"
      [] p = TwitterProvider -> "Twitter/X Pixel"
      [] p = MicrosoftClarityProvider -> "Microsoft Clarity"
      [] p \in Unlisted -> UnlistedName(p)
      [] p = BaseProvider -> ""

RawType(p) ==
    CASE p = GoogleTagManagerProvider -> "tagmanager"
      [] p = AdobeWebSdkProvider -> "analytics"
      [] p \in {FacebookPixelProvider, TikTokProvider, PinterestProvider,
                LinkedInProvider, TwitterProvider} -> "marketing"
      [] p \in {GoogleAnalyticsProvider, MicrosoftClarityProvider} -> "analytics"
      [] p = AdobeLaunchProvider -> "tagmanager"
      [] p \in Unlisted -> UnlistedType(p)
      [] p = BaseProvider -> ""

TypeNames == [t \in {"analytics", "customer", "testing", "tagmanager",
                     "visitorid", "marketing", "replay"} |->
                CASE t = "analytics" -> "Analytics"
                  [] t = "customer" -> "Customer Engagement"
                  [] t = "testing" -> "UX Testing"
                  [] t = "tagmanager" -> "Tag Manager"
                  [] t = "visitorid" -> "Visitor Identification"
                  [] t = "marketing" -> "Marketing"
                  [] t = "replay" -> "Session Replay/Heat Maps"]

ProviderType(p) ==
    IF RawType(p) \in DOMAIN TypeNames THEN TypeNames[RawType(p)] ELSE "Unknown"

(* /\/\/www\.googletagmanager\.com(?:\/[a-z]+|)\/[a-z]+\.js/ *)
GtmPattern ==
    Cat(<<Lit("/"), Lit("/"), Lit("www.googletagmanager.com"),
          Alt(<<Cat(<<Lit("/"), LowerPlus>>), Empty>>),
          Lit("/"), LowerPlus, Lit("."), Lit("js")>>)

(* /\/(ee|edge|interact|collect)\/v1\/interact/ *)
WebSdkPattern ==
    Cat(<<Lit("/"),
          Alt(<<Lit("ee"), Lit("edge"), Lit("interact"), Lit("collect")>>),
          Lit("/"), Lit("v1"), Lit("/"), Lit("interact")>>)

(* /\/\/www\.facebook\.com\/tr\/?(?:\?|$)/ *)
FacebookPattern ==
    Cat(<<Lit("/"), Lit("/"), Lit("www.facebook.com"), Lit("/"), Lit("tr"),
          Opt(Lit("/")), Alt(<<Lit("?"), Eol>>)>>)

(* /\/\/analytics\.tiktok\.com\/(?:i18n\/)?pixel\/(?:track|events)/ *)
TikTokPattern ==
    Cat(<<Lit("/"), Lit("/"), Lit("analytics.tiktok.com"), Lit("/"),
          Opt(Cat(<<Lit("i18n"), Lit("/")>>)), Lit("pixel"), Lit("/"),
          Alt(<<Lit("track"), Lit("events")>>)>>)

(* /\/\/ct\.pinterest\.com(?:\/v3)?\/user|\/\/ct\.pinterest\.com(?:\/v3)?\/events/ *)
PinterestPattern ==
    Alt(<<Cat(<<Lit("/"), Lit("/"), Lit("ct.pinterest.com"),
                Opt(Cat(<<Lit("/"), Lit("v3")>>)), Lit("/"), Lit("user")>>),
          Cat(<<Lit("/"), Lit("/"), Lit("ct.pinterest.com"),
                Opt(Cat(<<Lit("/"), Lit("v3")>>)), Lit("/"), Lit("events")>>)>>)

(* The five alternatives of GoogleAnalyticsProvider's pattern:
   <host>\/(?:<x>\/)?collect(?:[/?]|$) *)
GaCollect(host, x) ==
    Cat(<<host, Lit("/"), Opt(Cat(<<Lit(x), Lit("/")>>)), Lit("collect"),
          Alt(<<Lit("/"), Lit("?"), Eol>>)>>)
GoogleAnalyticsPattern ==
    Alt(<<GaCollect(Form("*.google-analytics.com"), "r"),
          GaCollect(Form("*.google-analytics.com"), "j"),
          GaCollect(Form("*.google-analytics.com"), "mp"),
          GaCollect(Form("*stats.g.doubleclick.net"), "r"),
          GaCollect(Form("*analytics.google.com"), "g")>>)

(* The tail \.min\.js of a file name. *)
MinJs == <<Lit("."), Lit("min"), Lit("."), Lit("js")>>

(* AdobeLaunchProvider's pattern: launch-<id>[-development|-staging].min.js
   under //assets.adobedtm.com/, or launch-<hex> two directories down. *)
AdobeLaunchPattern ==
    LET host == <<Lit("/"), Lit("/"), Lit("assets.adobedtm.com"), Lit("/")>>
    IN Alt(<<Cat(host \o <<Form("launch-[a-zA-Z0-9]+-development")>> \o MinJs),
             Cat(host \o <<Form("launch-[a-zA-Z0-9]+-staging")>> \o MinJs),
             Cat(host \o <<Form("launch-[a-zA-Z0-9]+")>> \o MinJs),
             Cat(host \o <<NotSlashPlus, Lit("/"), NotSlashPlus, Lit("/"),
                           Alt(<<Form("launch-[a-f0-9]+-development"),
                                 Form("launch-[a-f0-9]+-staging"),
                                 Form("launch-[a-f0-9]+")>>)>> \o MinJs)>>)

(* /\/\/px\.ads\.linkedin\.com\/collect|\/\/snap\.licdn\.com\/li\.lms-analytics
   \/insight\.min\.js|\/\/platform\.linkedin\.com/ *)
LinkedInPattern ==
    Alt(<<Cat(<<Lit("/"), Lit("/"), Lit("px.ads.linkedin.com"), Lit("/"), Lit("collect")>>),
          Cat(<<Lit("/"), Lit("/"), Lit("snap.licdn.com"), Lit("/"), Lit("li"), Lit("."),
                Lit("lms-analytics"), Lit("/"), Lit("insight")>> \o MinJs),
          Cat(<<Lit("/"), Lit("/"), Lit("platform.linkedin.com")>>)>>)

(* /\/\/static\.ads-twitter\.com\/uwt\.js|\/\/analytics\.twitter\.com\/i\/adsct|
   \/\/t\.co\/i\/adsct|\/\/platform\.twitter\.com\/widgets\.js/ *)
TwitterPattern ==
    Alt(<<Cat(<<Lit("/"), Lit("/"), Lit("static.ads-twitter.com"), Lit("/"),
                Lit("uwt"), Lit("."), Lit("js")>>),
          Cat(<<Lit("/"), Lit("/"), Lit("analytics.twitter.com"), Lit("/"),
                Lit("i"), Lit("/"), Lit("adsct")>>),
          Cat(<<Lit("/"), Lit("/"), Lit("t.co"), Lit("/"), Lit("i"), Lit("/"),
                Lit("adsct")>>),
          Cat(<<Lit("/"), Lit("/"), Lit("platform.twitter.com"), Lit("/"),
                Lit("widgets"), Lit("."), Lit("js")>>)>>)

(* /\/\/(?:www\.)?clarity\.ms\/(?:tag|collect|eus-breeziest|eventlogger)/ *)
MicrosoftClarityPattern ==
    Cat(<<Lit("/"), Lit("/"), Alt(<<Lit("www.clarity.ms"), Lit("clarity.ms")>>),
          Lit("/"),
          Alt(<<Lit("tag"), Lit("collect"), Lit("eus-breeziest"), Lit("eventlogger")>>)>>)

(* The source of a provider's pattern; none of the patterns carries a flag. *)
PatternSource(p) ==
    CASE p = GoogleTagManagerProvider -> GtmPattern
      [] p = AdobeWebSdkProvider -> WebSdkPattern
      [] p = FacebookPixelProvider -> FacebookPattern
      [] p = TikTokProvider -> TikTokPattern
      [] p = PinterestProvider -> PinterestPattern
      [] p = GoogleAnalyticsProvider -> GoogleAnalyticsPattern
      [] p = AdobeLaunchProvider -> AdobeLaunchPattern
      [] p = LinkedInProvider -> LinkedInPattern
      [] p = TwitterProvider -> TwitterPattern
      [] p = MicrosoftClarityProvider -> MicrosoftClarityPattern
      [] p \in Unlisted -> UnlistedPattern(p)
      [] p = BaseProvider -> AnyStar

ProviderPattern(p) == [re |-> PatternSource(p), ic |-> FALSE]

(* BaseProvider.checkUrl *)
ProviderCheckUrl(p, u) == Test(ProviderPattern(p), Raw(u))

(***************************************************************************)
(* JavaScript values and request bodies                                    *)
(***************************************************************************)
JNum(n) == [t |-> "num", n |-> n]
JStr(s) == [t |-> "str", s |-> s]
JBool(b) == [t |-> "bool", b |-> b]
JNull == [t |-> "null"]
JArr(items) == [t |-> "arr", items |-> items]
JObj(members) == [t |-> "obj", members |-> members]
Member(k, v) == [k |-> k, v |-> v]

(* Object(cur) === cur *)
IsObject(v) == v.t \in {"arr", "obj"}

(* String(v) of a primitive, as URLSearchParams.append converts a value. *)
JsString(v) ==
    CASE v.t = "str" -> v.s
      [] v.t = "num" -> ToString(v.n)
      [] v.t = "bool" -> (IF v.b THEN "true" ELSE "false")
      [] v.t = "null" -> "null"

RECURSIVE JoinComma(_)
(* Array.prototype.join(",") over primitives: null joins as the empty string. *)
JoinComma(items) ==
    IF items = <<>> THEN ""
    ELSE (IF Head(items).t = "null" THEN "" ELSE JsString(Head(items)))
         \o (IF Len(items) > 1 THEN "," ELSE "")
         \o JoinComma(Tail(items))

(* v.toString(): null has no such method. *)
ToStringThrows(v) == v.t = "null"
ToStringOf(v) ==
    CASE v.t = "obj" -> "[object Object]"
      [] v.t = "arr" -> JoinComma(v.items)
      [] OTHER -> JsString(v)

(* Truthiness of a JavaScript value. *)
JsTruthy(v) ==
    CASE v.t = "null" -> FALSE
      [] v.t = "bool" -> v.b
      [] v.t = "num" -> v.n # 0
      [] v.t = "str" -> v.s # ""
      [] OTHER -> TRUE

(* obj[name] for a member name of an object; JNull stands for undefined,
   which every use below treats as it treats null. *)
GetMember(v, name) ==
    IF v.t = "obj" /\ \E i \in 1 .. Len(v.members) : v.members[i].k = name
    THEN v.members[CHOOSE i \in 1 .. Len(v.members) :
                       /\ v.members[i].k = name
                       /\ \A j \in (i + 1) .. Len(v.members) : v.members[j].k # name].v
    ELSE JNull

(* A request body: undefined, a string that is the JSON text of a value, a
   string that is no JSON text (its atoms), or an object. *)
Undefined == [kind |-> "undefined"]
JsonText(v) == [kind |-> "string", json |-> TRUE, value |-> v, text |-> <<>>]
PlainText(atoms) == [kind |-> "string", json |-> FALSE, value |-> JNull, text |-> atoms]
ObjectBody(v) == [kind |-> "object", value |-> v]

(* Truthiness of a body: only the empty string and undefined are falsy. *)
Truthy(b) ==
    CASE b.kind = "undefined" -> FALSE
      [] b.kind = "string" -> b.json \/ b.text # <<>>
      [] OTHER -> TRUE

(* postData = "" as a default parameter *)
DefaultBody(b) == IF b.kind = "undefined" THEN PlainText(<<>>) ELSE b

RECURSIVE Split(_, _)
(* String.prototype.split(sep) for a one-character separator. *)
Split(atoms, sep) ==
    IF \A i \in 1 .. Len(atoms) : atoms[i] # sep THEN <<atoms>>
    ELSE LET i == CHOOSE j \in 1 .. Len(atoms) :
                      atoms[j] = sep /\ \A h \in 1 .. (j - 1) : atoms[h] # sep
         IN <<SubSeq(atoms, 1, i - 1)>> \o Split(SubSeq(atoms, i + 1, Len(atoms)), sep)

(* The percent escapes that occur in the bodies used here. *)
Escapes == [a \in {"3D", "21"} |-> IF a = "3D" THEN "=" ELSE "!"]

RECURSIVE DecodeOk(_)
(* Whether decodeURIComponent accepts the string: every "%" is followed by
   the two hexadecimal digits of a character. *)
DecodeOk(atoms) ==
    IF atoms = <<>> THEN TRUE
    ELSE IF Head(atoms) = "%"
         THEN /\ Len(atoms) > 1
              /\ atoms[2] \in DOMAIN Escapes
              /\ DecodeOk(Tail(Tail(atoms)))
         ELSE DecodeOk(Tail(atoms))

RECURSIVE decodeURIComponent(_)
decodeURIComponent(atoms) ==
    IF atoms = <<>> THEN ""
    ELSE IF Head(atoms) = "%"
         THEN Escapes[atoms[2]] \o decodeURIComponent(Tail(Tail(atoms)))
         ELSE Head(atoms) \o decodeURIComponent(Tail(atoms))

Pair(k, v) == [k |-> k, v |-> v]

RECURSIVE recurse(_, _)
RECURSIVE recurseItems(_, _, _)
RECURSIVE recurseMembers(_, _)
(* The flattening of a parsed JSON value into (path, value) pairs. *)
recurse(cur, prop) ==
    IF ~IsObject(cur) THEN <<Pair(prop, cur)>>
    ELSE IF cur.t = "arr"
         THEN recurseItems(cur.items, prop, 0)
              \o (IF cur.items = <<>> THEN <<Pair(prop, JStr(""))>> ELSE <<>>)
         ELSE recurseMembers(cur.members, prop)
              \o (IF cur.members = <<>> /\ prop # <<>>
                  THEN <<Pair(prop, JStr(""))>> ELSE <<>>)

(* A flattening that numbers the elements of an array from one. *)
recurseItemsFromOne(items, prop, i) ==
    IF items = <<>> THEN <<>>
    ELSE recurse(Head(items), prop \o <<"[", ToString(i + 1), "]">>)
         \o recurseItems(Tail(items), prop, i + 1)

recurseItems(items, prop, i) ==
    IF items = <<>> THEN <<>>
    ELSE recurse(Head(items), prop \o <<"[", ToString(i), "]">>)
         \o recurseItems(Tail(items), prop, i + 1)

recurseMembers(members, prop) ==
    IF members = <<>> THEN <<>>
    ELSE recurse(Head(members).v,
                 IF prop # <<>> THEN prop \o <<".">> \o Head(members).k
                 ELSE Head(members).k)
         \o recurseMembers(Tail(members), prop)

(* A fallback that gives up on a body that is no JSON text. *)
NoFormPairs(keyPairs) == <<>>

RECURSIVE FormPairs(_)
(* keyPairs.forEach of the form-data fallback: the first value that
   decodeURIComponent rejects ends the loop, the pairs pushed so far stay. *)
FormPairs(keyPairs) ==
    IF keyPairs = <<>> THEN <<>>
    ELSE LET splitPair == Split(Head(keyPairs), "=")
             half == IF Len(splitPair) > 1 THEN splitPair[2] ELSE <<>>
         IN IF ~DecodeOk(half) THEN <<>>
            ELSE <<Pair(splitPair[1], JStr(decodeURIComponent(half)))>>
                 \o FormPairs(Tail(keyPairs))

(* Object.entries of an object, an array, a number or a boolean (a string
   would give one entry per character: the bodies used here hold no string
   where the code expects an object). *)
ObjectEntries(v) ==
    CASE v.t = "obj" -> v.members
      [] v.t = "arr" -> [j \in 1 .. Len(v.items) |->
                            Member(<<ToString(j - 1)>>, v.items[j])]
      [] v.t \in {"num", "bool"} -> <<>>

(* Whether parsePostData throws: an entry of an object body without toString. *)
parsePostDataThrows(postData) ==
    LET b == DefaultBody(postData)
    IN /\ b.kind = "object"
       /\ \E i \in 1 .. Len(ObjectEntries(b.value)) :
              ToStringThrows(ObjectEntries(b.value)[i].v)

(* The pairs parsePostData returns when it does not throw. *)
parsePostData(postData) ==
    LET b == DefaultBody(postData)
    IN IF b.kind = "string" /\ Truthy(b)
       THEN (IF b.json THEN recurse(b.value, <<>>)
             ELSE FormPairs(Split(b.text, "&")))
       ELSE IF b.kind = "object"
       THEN LET es == ObjectEntries(b.value)
            IN [i \in 1 .. Len(es) |-> Pair(es[i].k, JStr(ToStringOf(es[i].v)))]
       ELSE <<>>

(***************************************************************************)
(* Field catalog and the hooks of a provider                               *)
(***************************************************************************)
(* A field of a ParseResult; Absent stands for a property the code leaves
   out, and hidden = FALSE for a hidden property left out. *)
Absent == "<absent>"
Field(key, field, value, group) ==
    [key |-> key, field |-> field, value |-> value, group |-> group, hidden |-> FALSE]
HiddenField(key, value) ==
    [key |-> key, field |-> Absent, value |-> value, group |-> Absent, hidden |-> TRUE]

(* An entry of a catalog; "" stands for a property the entry leaves out. *)
Entry(name, group, hidden) == [name |-> name, group |-> group, hidden |-> hidden]

(* A catalog from the rows (key, name, group) of its visible entries and
   the keys of its hidden entries. *)
CatalogOf(rows, hidden) ==
    [k \in {rows[i][1] : i \in 1 .. Len(rows)} \cup hidden |->
        IF k \in hidden THEN Entry("", "", TRUE)
        ELSE LET row == rows[CHOOSE j \in 1 .. Len(rows) : rows[j][1] = k]
             IN Entry(row[2], row[3], FALSE)]

GtmKeys ==
    CatalogOf(<<
        <<"id", "Container ID", "general">>,
        <<"l", "Data Layer Name", "general">>,
        <<"cx", "Container Experiments", "general">>,
        <<"gcs", "Consent Mode", "general">>,
        <<"gtm", "GTM Debug", "general">>>>,
        {"requestType"})

FacebookKeys ==
    CatalogOf(<<
        <<"id", "Pixel ID", "general">>,
        <<"tid", "Metadata Tag ID", "general">>,
        <<"ev", "Event Name", "general">>,
        <<"dl", "Page URL", "general">>,
        <<"rl", "Referring URL", "general">>,
        <<"if", "Within iframe", "general">>,
        <<"ts", "Timestamp", "general">>,
        <<"sw", "Screen Width", "general">>,
        <<"sh", "Screen Height", "general">>,
        <<"v", "SDK Version", "general">>,
        <<"r", "Random Number", "general">>,
        <<"fbp", "Facebook Browser Pixel", "general">>,
        <<"ud", "User Data", "general">>,
        <<"cdo", "Custom Data", "general">>,
        <<"it", "Init Timestamp", "general">>,
        <<"a", "Deduplication ID", "general">>>>,
        {"requestType"})

TikTokKeys ==
    CatalogOf(<<
        <<"ttclid", "TikTok Click ID", "general">>,
        <<"sdkid", "Pixel ID", "general">>,
        <<"event", "Event Type", "general">>,
        <<"data", "Event Data", "general">>,
        <<"device_id", "Device ID", "general">>,
        <<"cookie_id", "Cookie ID", "general">>,
        <<"pixel_code", "Pixel Code", "general">>,
        <<"page_title", "Page Title", "general">>,
        <<"page_url", "Page URL", "general">>,
        <<"page_referrer", "Page Referrer", "general">>,
        <<"browser_language", "Browser Language", "general">>,
        <<"browser_platform", "Browser Platform", "general">>,
        <<"browser_name", "Browser Name", "general">>,
        <<"browser_version", "Browser Version", "general">>,
        <<"browser_online", "Browser Online", "general">>,
        <<"screen_width", "Screen Width", "general">>,
        <<"screen_height", "Screen Height", "general">>>>,
        {"requestType"})

PinterestKeys ==
    CatalogOf(<<
        <<"tid", "Tag ID", "general">>,
        <<"event", "Event Type", "general">>,
        <<"ed", "Event Data", "general">>,
        <<"callback", "Callback Function", "general">>,
        <<"noscript", "No Script Tag", "general">>,
        <<"np", "Page URL", "general">>,
        <<"pd[em]", "Email Address", "general">>,
        <<"pd[fn]", "First Name", "general">>,
        <<"pd[ln]", "Last Name", "general">>,
        <<"pd[ge]", "Gender", "general">>,
        <<"pd[db]", "Date of Birth", "general">>,
        <<"pd[ph]", "Phone Number", "general">>,
        <<"pd[ct]", "City", "general">>,
        <<"pd[st]", "State", "general">>,
        <<"pd[zp]", "ZIP/Postal Code", "general">>,
        <<"pd[country]", "Country", "general">>,
        <<"pd[external_id]", "External ID", "general">>,
        <<"currency", "Currency", "ecommerce">>,
        <<"value", "Value", "ecommerce">>,
        <<"order_id", "Order ID", "ecommerce">>,
        <<"order_quantity", "Order Quantity", "ecommerce">>,
        <<"promo_code", "Promo Code", "ecommerce">>,
        <<"product_id", "Product ID", "ecommerce">>,
        <<"product_name", "Product Name", "ecommerce">>,
        <<"product_category", "Product Category", "ecommerce">>,
        <<"product_brand", "Product Brand", "ecommerce">>,
        <<"product_variant", "Product Variant", "ecommerce">>,
        <<"product_variant_id", "Product Variant ID", "ecommerce">>,
        <<"product_price", "Product Price", "ecommerce">>,
        <<"product_quantity", "Product Quantity", "ecommerce">>>>,
        {"requestType"})

GoogleAnalyticsKeys ==
    CatalogOf(<<
        <<"v", "Protocol Version", "general">>,
        <<"tid", "Tracking ID", "general">>,
        <<"aip", "Anonymize IP", "general">>,
        <<"qt", "Queue Time", "general">>,
        <<"z", "Cache Buster", "general">>,
        <<"cid", "Client ID", "general">>,
        <<"sc", "Session Control", "general">>,
        <<"dr", "Document Referrer", "general">>,
        <<"cn", "Campaign Name", "campaign">>,
        <<"cs", "Campaign Source", "campaign">>,
        <<"cm", "Campaign Medium", "campaign">>,
        <<"ck", "Campaign Keyword", "campaign">>,
        <<"cc", "Campaign Content", "campaign">>,
        <<"ci", "Campaign ID", "campaign">>,
        <<"gclid", "Google AdWords ID", "campaign">>,
        <<"dclid", "Google Display Ads ID", "campaign">>,
        <<"sr", "Screen Resolution", "general">>,
        <<"vp", "Viewport Size", "general">>,
        <<"de", "Document Encoding", "general">>,
        <<"sd", "Screen Colors", "general">>,
        <<"ul", "User Language", "general">>,
        <<"je", "Java Enabled", "general">>,
        <<"fl", "Flash Version", "general">>,
        <<"t", "Hit Type", "general">>,
        <<"ni", "Non-Interaction Hit", "events">>,
        <<"dl", "Document location URL", "general">>,
        <<"dh", "Document Host Name", "general">>,
        <<"dp", "Document Path", "general">>,
        <<"dt", "Document Title", "general">>,
        <<"cd", "Content Description", "general">>,
        <<"an", "Application Name", "general">>,
        <<"av", "Application Version", "general">>,
        <<"ec", "Event Category", "events">>,
        <<"ea", "Event Action", "events">>,
        <<"el", "Event Label", "events">>,
        <<"ev", "Event Value", "events">>,
        <<"ta", "Transaction Affiliation", "ecommerce">>,
        <<"tr", "Transaction Revenue", "ecommerce">>,
        <<"ts", "Transaction Shipping", "ecommerce">>,
        <<"tt", "Transaction Tax", "ecommerce">>,
        <<"ti", "Transaction ID", "ecommerce">>,
        <<"in", "Item Name", "ecommerce">>,
        <<"ip", "Item Price", "ecommerce">>,
        <<"iq", "Item Quantity", "ecommerce">>,
        <<"ic", "Item Code", "ecommerce">>,
        <<"iv", "Item Category", "ecommerce">>,
        <<"cu", "Currency Code", "ecommerce">>,
        <<"sn", "Social Network", "events">>,
        <<"sa", "Social Action", "events">>,
        <<"st", "Social Action Target", "events">>,
        <<"utc", "User Timing Category", "timing">>,
        <<"utv", "User Timing Variable Name", "timing">>,
        <<"utt", "User Timing Time", "timing">>,
        <<"utl", "User timing Label", "timing">>,
        <<"plt", "Page load time", "timing">>,
        <<"dns", "DNS time", "timing">>,
        <<"pdt", "Page download time", "timing">>,
        <<"rrt", "Redirect response time", "timing">>,
        <<"tcp", "TCP connect time", "timing">>,
        <<"srt", "Server response time", "timing">>,
        <<"exd", "Exception description", "events">>,
        <<"exf", "Is exception fatal?", "events">>,
        <<"ds", "Data Source", "general">>,
        <<"uid", "User ID", "general">>,
        <<"linkid", "Link ID", "general">>,
        <<"pa", "Product Action", "ecommerce">>,
        <<"tcc", "Coupon Code", "ecommerce">>,
        <<"pal", "Product Action List", "ecommerce">>,
        <<"cos", "Checkout Step", "ecommerce">>,
        <<"col", "Checkout Step Option", "ecommerce">>,
        <<"promoa", "Promotion Action", "ecommerce">>,
        <<"_r", "Display Features Enabled", "general">>>>,
        {"requestType"})

NoKeys == [k \in {} |-> Entry("", "", FALSE)]

keys(p) ==
    CASE p = GoogleTagManagerProvider -> GtmKeys
      [] p = FacebookPixelProvider -> FacebookKeys
      [] p = TikTokProvider -> TikTokKeys
      [] p = PinterestProvider -> PinterestKeys
      [] p = GoogleAnalyticsProvider -> GoogleAnalyticsKeys
      [] p \in {BaseProvider, AdobeWebSdkProvider} -> NoKeys

columnMapping(p) ==
    CASE p = GoogleTagManagerProvider -> [account |-> "id", requestType |-> "requestType"]
      [] p = AdobeWebSdkProvider -> [account |-> "configId", requestType |-> "requestType"]
      [] p = FacebookPixelProvider -> [account |-> "id", requestType |-> "requestType"]
      [] p = TikTokProvider -> [account |-> "sdkid", requestType |-> "requestType"]
      [] p = PinterestProvider -> [account |-> "tid", requestType |-> "requestType"]
      [] p = GoogleAnalyticsProvider ->
            [account |-> "tid", requestType |-> "omnibug_requestType"]
      [] p = BaseProvider -> <<>>

Group(key, name) == [key |-> key, name |-> name]

groups(p) ==
    CASE p = GoogleTagManagerProvider -> <<Group("general", "General")>>
      [] p = AdobeWebSdkProvider ->
            <<Group("general", "General"), Group("xdm", "XDM Data"),
              Group("identity", "Identity"), Group("target", "Target"),
              Group("analytics", "Analytics"), Group("other", "Other")>>
      [] p = FacebookPixelProvider ->
            <<Group("general", "General"), Group("customdata", "Custom Data")>>
      [] p = TikTokProvider ->
            <<Group("general", "General"), Group("properties", "Event Properties")>>
      [] p = PinterestProvider ->
            <<Group("general", "General"), Group("ecommerce", "E-commerce"),
              Group("custom", "Custom Parameters")>>
      [] p = GoogleAnalyticsProvider ->
            <<Group("general", "General"), Group("campaign", "Campaign"),
              Group("events", "Events"), Group("ecommerce", "Ecommerce"),
              Group("timing", "Timing"), Group("dimensions", "Custom Dimensions"),
              Group("metrics", "Custom Metrics"),
              Group("contentgroup", "Content Groups")>>
      [] p = BaseProvider -> <<>>

(* The "provider" part of every ParseResult. *)
ProviderInfo(p) ==
    [name |-> ProviderName(p), key |-> ProviderKey(p), type |-> ProviderType(p),
     columns |-> columnMapping(p), groups |-> groups(p)]

(* The properties every object literal inherits from Object.prototype, with
   the name property of each: all are functions named after themselves but
   constructor, which is the function Object, and __proto__, which is an
   object without a name. *)
ObjectPrototype ==
    [k \in {"constructor", "toString", "toLocaleString", "valueOf",
            "hasOwnProperty", "isPrototypeOf", "propertyIsEnumerable",
            "__defineGetter__", "__defineSetter__", "__lookupGetter__",
            "__lookupSetter__", "__proto__"} |->
        CASE k = "constructor" -> "Object"
          [] k = "__proto__" -> ""
          [] OTHER -> k]

(* this.keys[name] || {} : a property read looks at the catalog's own
   entries, then at Object.prototype. *)
CatalogEntry(catalog, name) ==
    IF name \in DOMAIN catalog THEN catalog[name]
    ELSE IF name \in DOMAIN ObjectPrototype THEN Entry(ObjectPrototype[name], "", FALSE)
    ELSE Entry("", "", FALSE)

(* BaseProvider.handleQueryParam: the fields (none or one) of a parameter. *)
BaseHandleQueryParam(p, name, value) ==
    LET param == CatalogEntry(keys(p), Join(name))
    IN IF ~param.hidden
       THEN <<Field(Join(name),
                    IF param.name # "" THEN param.name ELSE Join(name),
                    value,
                    IF param.group # "" THEN param.group ELSE "other")>>
       ELSE <<>>

(* Array.prototype.includes for a string taken as atoms. *)
Includes(s, sub) ==
    \E i \in 1 .. (Len(s) - Len(sub) + 1) : SubSeq(s, i, i + Len(sub) - 1) = sub

Punctuation == {"/", ".", "-", "?", "=", "&", ":", "[", "]", "%", "{", "}", " "}

(* pathname.match(/\/gtm-(\w+)\.js/): the positions of the matches. *)
GtmIdMatches(path) ==
    {i \in 1 .. (Len(path) - 5) :
        /\ path[i] = "/" /\ path[i + 1] = "gtm" /\ path[i + 2] = "-"
        /\ path[i + 3] \notin Punctuation
        /\ path[i + 4] = "." /\ path[i + 5] = "js"}

(* URLSearchParams.has and .get on the merged parameters. *)
Has(params, k) == \E i \in 1 .. Len(params) : params[i].k = k
Get(params, k) ==
    params[CHOOSE i \in 1 .. Len(params) :
               params[i].k = k /\ \A j \in 1 .. (i - 1) : params[j].k # k].v

GtmScriptType(path) ==
    IF Includes(path, <<"/", "gtag", "/", "js">>) THEN "gtag.js"
    ELSE IF Includes(path, <<"/", "gtm", ".", "js">>) THEN "gtm.js"
    ELSE IF Includes(path, <<"/", "gtm", "-", "preview">>) THEN "GTM Preview"
    ELSE IF Includes(path, <<"/", "ns", ".", "html">>) THEN "GTM No-Script"
    ELSE "Unknown"

(* GoogleTagManagerProvider.handleCustom *)
GtmHandleCustom(u, params) ==
    (IF Has(params, <<"id">>)
     THEN <<Field("id", "Container ID", Get(params, <<"id">>), "general")>>
     ELSE IF GtmIdMatches(u.path) # {}
     THEN LET i == CHOOSE j \in GtmIdMatches(u.path) :
                       \A h \in GtmIdMatches(u.path) : j <= h
          IN <<Field("id", "Container ID", "GTM-" \o u.path[i + 3], "general")>>
     ELSE <<>>)
    \o <<HiddenField("requestType", "Container Load")>>
    \o <<Field("scriptType", "Script Type", GtmScriptType(u.path), "general")>>

(***************************************************************************)
(* JSON embedded in a parameter value                                      *)
(***************************************************************************)
RECURSIVE JsonStringify(_)
RECURSIVE StringifyItems(_)
RECURSIVE StringifyMembers(_)
(* JSON.stringify(v) *)
JsonStringify(v) ==
    CASE v.t = "str" -> "\"" \o v.s \o "\""
      [] v.t = "arr" -> "[" \o StringifyItems(v.items) \o "]"
      [] v.t = "obj" -> "{" \o StringifyMembers(v.members) \o "}"
      [] OTHER -> JsString(v)

StringifyItems(items) ==
    IF items = <<>> THEN ""
    ELSE JsonStringify(Head(items)) \o (IF Len(items) > 1 THEN "," ELSE "")
         \o StringifyItems(Tail(items))

StringifyMembers(members) ==
    IF members = <<>> THEN ""
    ELSE "\"" \o Join(Head(members).k) \o "\":" \o JsonStringify(Head(members).v)
         \o (IF Len(members) > 1 THEN "," ELSE "")
         \o StringifyMembers(Tail(members))

RECURSIVE Spaces(_)
Spaces(n) == IF n = 0 THEN "" ELSE " " \o Spaces(n - 1)

RECURSIVE Pretty(_, _)
RECURSIVE PrettyItems(_, _)
RECURSIVE PrettyMembers(_, _)
(* JSON.stringify(v, null, 2) at an indentation of n spaces. *)
Pretty(v, n) ==
    CASE v.t = "arr" /\ v.items # <<>> ->
            "[\n" \o PrettyItems(v.items, n + 2) \o "\n" \o Spaces(n) \o "]"
      [] v.t = "obj" /\ v.members # <<>> ->
            "{\n" \o PrettyMembers(v.members, n + 2) \o "\n" \o Spaces(n) \o "}"
      [] OTHER -> JsonStringify(v)

PrettyItems(items, n) ==
    IF items = <<>> THEN ""
    ELSE Spaces(n) \o Pretty(Head(items), n)
         \o (IF Len(items) > 1 THEN ",\n" ELSE "")
         \o PrettyItems(Tail(items), n)

PrettyMembers(members, n) ==
    IF members = <<>> THEN ""
    ELSE Spaces(n) \o "\"" \o Join(Head(members).k) \o "\": "
         \o Pretty(Head(members).v, n)
         \o (IF Len(members) > 1 THEN ",\n" ELSE "")
         \o PrettyMembers(Tail(members), n)

(* The values whose JSON text a request carries in a parameter. *)
CdValue == JObj(<<Member(<<"value">>, JNum(50)),
                  Member(<<"contents">>, JArr(<<JStr("sku1")>>))>>)
UdValue == JObj(<<Member(<<"em">>, JStr("a@b.c")),
                  Member(<<"external_id">>, JStr("u1"))>>)
(* User data that differs from UdValue in the e-mail address alone. *)
UdOtherValue == JObj(<<Member(<<"em">>, JStr("x@y.z")),
                       Member(<<"external_id">>, JStr("u1"))>>)
TkValue == JObj(<<Member(<<"event">>, JStr("AddToCart")),
                  Member(<<"pixel_code">>, JStr("C123")),
                  Member(<<"properties">>, JObj(<<Member(<<"price">>, JNum(5))>>))>>)
EdValue == JObj(<<Member(<<"value">>, JNum(10)),
                  Member(<<"lead_type">>, JStr("x"))>>)
EmbeddedValues == {CdValue, UdValue, UdOtherValue, TkValue, EdValue, JNull}

(* A text that is no JSON text, and a JSON text that decodeURIComponent
   rejects for its lone "%". *)
BadJsonText == "{not json"
PercentText == "{\"d\":\"10%\"}"

(* Whether JSON.parse(decodeURIComponent(text)) throws, for the parameter
   values that the hooks decode here. *)
JsonParseThrows(text) ==
    CASE text \in {BadJsonText, PercentText} -> TRUE
      [] \E v \in EmbeddedValues : JsonStringify(v) = text -> FALSE

JsonParse(text) == CHOOSE v \in EmbeddedValues : JsonStringify(v) = text

(* A primitive as a field carries it: a string, or the number or boolean. *)
Prim(v) == IF v.t = "str" THEN v.s ELSE v

(* typeof value === "object" ? JSON.stringify(value) : value *)
HookValue(v) == IF v.t \in {"obj", "arr", "null"} THEN JsonStringify(v) ELSE Prim(v)

(* Object.entries throws on null. *)
EntriesThrow(v) == v.t = "null"

(* The end of the run of atoms outside stops that starts at position i. *)
RunEnd(s, i, stops) ==
    CHOOSE j \in i .. (Len(s) + 1) :
        /\ j = Len(s) + 1 \/ s[j] \in stops
        /\ \A h \in i .. (j - 1) : s[h] \notin stops

(* The first value of a parameter, or "" when get() returns null. *)
GetOr(params, k, default) ==
    IF Has(params, k) /\ Get(params, k) # "" THEN Get(params, k) ELSE default

(***************************************************************************)
(* FacebookPixelProvider                                                   *)
(***************************************************************************)
(* A hook that hands every parameter to the catalog. *)
FacebookPlainQueryParam(name, value) ==
    BaseHandleQueryParam(FacebookPixelProvider, name, value)

(* FacebookPixelProvider.handleQueryParam: /^cd\[(.+)]$/ *)
FacebookHandleQueryParam(name, value) ==
    IF Len(name) >= 4 /\ name[1] = "cd" /\ name[2] = "[" /\ name[Len(name)] = "]"
    THEN <<Field(Join(name), "Custom Data: " \o Join(SubSeq(name, 3, Len(name) - 1)),
                 value, "customdata")>>
    ELSE BaseHandleQueryParam(FacebookPixelProvider, name, value)

FacebookCustomData(params) ==
    IF ~Has(params, <<"cd">>) THEN <<>>
    ELSE LET text == Get(params, <<"cd">>)
         IN IF JsonParseThrows(text) \/ EntriesThrow(JsonParse(text))
            THEN <<Field("cd", "Custom Data (unparseable)", text, "customdata")>>
            ELSE LET es == ObjectEntries(JsonParse(text))
                 IN [i \in 1 .. Len(es) |->
                        Field("cd[" \o Join(es[i].k) \o "]",
                              "Custom Data: " \o Join(es[i].k),
                              HookValue(es[i].v), "customdata")]

MaskedKeys == {"em", "ph", "fn", "ln", "ge", "db", "ct", "st", "zp"}

FacebookUserData(params) ==
    IF ~Has(params, <<"ud">>) THEN <<>>
    ELSE LET text == Get(params, <<"ud">>)
         IN IF JsonParseThrows(text) \/ EntriesThrow(JsonParse(text))
            THEN <<Field("ud", "User Data (unparseable)", "[MASKED]", "general")>>
            ELSE LET es == ObjectEntries(JsonParse(text))
                 IN [i \in 1 .. Len(es) |->
                        Field("ud[" \o Join(es[i].k) \o "]",
                              "User Data: " \o Join(es[i].k),
                              IF Join(es[i].k) \in MaskedKeys THEN "********"
                              ELSE Prim(es[i].v),
                              "general")]

(* FacebookPixelProvider.handleCustom *)
FacebookHandleCustom(u, params) ==
    <<HiddenField("requestType", GetOr(params, <<"ev">>, "PageView"))>>
    \o FacebookCustomData(params)
    \o FacebookUserData(params)

(***************************************************************************)
(* TikTokProvider                                                          *)
(***************************************************************************)
(* TikTokProvider.handleQueryParam *)
TikTokHandleQueryParam(name, value) ==
    IF name = <<"data">>
    THEN (IF JsonParseThrows(value)
          THEN BaseHandleQueryParam(TikTokProvider, name, value)
          ELSE <<Field("data", "Event Data (JSON)", Pretty(JsonParse(value), 0),
                       "properties")>>)
    ELSE IF Len(name) >= 2 /\ name[1] = "properties" /\ name[2] = "."
    THEN <<Field(Join(name), "Property: " \o Join(Split(name, ".")[2]),
                 value, "properties")>>
    ELSE BaseHandleQueryParam(TikTokProvider, name, value)

(* pathname.match(/\/pixel\/track\/([^/?]+)/): where the matches start. *)
TikTokPixelIds(path) ==
    {i \in 1 .. (Len(path) - 5) :
        /\ SubSeq(path, i, i + 4) = <<"/", "pixel", "/", "track", "/">>
        /\ path[i + 5] \notin {"/", "?"}}

TikTokData(data, requestType) ==
    [requestType |->
        IF JsTruthy(GetMember(data, <<"event">>))
        THEN Prim(GetMember(data, <<"event">>)) ELSE requestType,
     fields |->
        (IF JsTruthy(GetMember(data, <<"pixel_code">>))
         THEN <<Field("pixel_code", "Pixel Code",
                      Prim(GetMember(data, <<"pixel_code">>)), "general")>>
         ELSE <<>>)
        \o (IF JsTruthy(GetMember(data, <<"properties">>))
            THEN LET es == ObjectEntries(GetMember(data, <<"properties">>))
                 IN [i \in 1 .. Len(es) |->
                        Field("properties." \o Join(es[i].k),
                              "Property: " \o Join(es[i].k),
                              HookValue(es[i].v), "properties")]
            ELSE <<>>)]

(* TikTokProvider.handleCustom: a data value that does not parse, or that
   is null, leaves the fields pushed before it and the request type. *)
TikTokHandleCustom(u, params) ==
    LET requestType == GetOr(params, <<"event">>, "PageView")
        ids == TikTokPixelIds(u.path)
        first == CHOOSE i \in ids : \A h \in ids : i <= h
        sdkid == IF ids = {} THEN <<>>
                 ELSE <<Field("sdkid", "Pixel ID",
                              Join(SubSeq(u.path, first + 5,
                                          RunEnd(u.path, first + 5, {"/", "?"}) - 1)),
                              "general")>>
        text == Get(params, <<"data">>)
        parsed == Has(params, <<"data">>) /\ ~JsonParseThrows(text)
                  /\ JsonParse(text).t # "null"
    IN sdkid
       \o (IF parsed THEN TikTokData(JsonParse(text), requestType).fields ELSE <<>>)
       \o <<HiddenField("requestType",
                        IF parsed THEN TikTokData(JsonParse(text), requestType).requestType
                        ELSE requestType)>>

(***************************************************************************)
(* PinterestProvider                                                       *)
(***************************************************************************)
(* PinterestProvider.handleQueryParam *)
PinterestHandleQueryParam(name, value) ==
    IF /\ Len(name) >= 4 /\ name[1] = "custom_data" /\ name[2] = "["
       /\ name[3] # "]" /\ RunEnd(name, 3, {"]"}) <= Len(name)
    THEN <<Field(Join(name),
                 "Custom: " \o Join(SubSeq(name, 3, RunEnd(name, 3, {"]"}) - 1)),
                 value, "custom")>>
    ELSE IF name = <<"ed">> /\ ~JsonParseThrows(value)
    THEN <<Field("ed", "Event Data (JSON)", Pretty(JsonParse(value), 0), "general")>>
    ELSE BaseHandleQueryParam(PinterestProvider, name, value)

(* pathname.match(/\/user\/([^/]+)\//): where the matches start. *)
PinterestTagIds(path) ==
    {i \in 1 .. (Len(path) - 4) :
        /\ SubSeq(path, i, i + 2) = <<"/", "user", "/">>
        /\ path[i + 3] # "/"
        /\ RunEnd(path, i + 3, {"/"}) <= Len(path)}

(* this.keys[key], read as handleCustom reads it. *)
OrAbsent(s) == IF s = "" THEN Absent ELSE s

PinterestEventData(data) ==
    LET es == ObjectEntries(data)
    IN [i \in 1 .. Len(es) |->
          IF Join(es[i].k) \in DOMAIN PinterestKeys \cup DOMAIN ObjectPrototype
          THEN Field(Join(es[i].k),
                     OrAbsent(CatalogEntry(PinterestKeys, Join(es[i].k)).name),
                     HookValue(es[i].v),
                     OrAbsent(CatalogEntry(PinterestKeys, Join(es[i].k)).group))
          ELSE Field("custom_data[" \o Join(es[i].k) \o "]",
                     "Custom: " \o Join(es[i].k), HookValue(es[i].v), "custom")]

(* PinterestProvider.handleCustom *)
PinterestHandleCustom(u, params) ==
    LET ids == PinterestTagIds(u.path)
        first == CHOOSE i \in ids : \A h \in ids : i <= h
        text == Get(params, <<"ed">>)
    IN (IF ~Has(params, <<"tid">>) /\ ids # {}
        THEN <<Field("tid", "Tag ID",
                     Join(SubSeq(u.path, first + 3, RunEnd(u.path, first + 3, {"/"}) - 1)),
                     "general")>>
        ELSE <<>>)
       \o (IF Has(params, <<"ed">>) /\ ~JsonParseThrows(text)
              /\ ~EntriesThrow(JsonParse(text))
           THEN PinterestEventData(JsonParse(text)) ELSE <<>>)
       \o <<HiddenField("requestType", GetOr(params, <<"event">>, "PageView"))>>

(***************************************************************************)
(* GoogleAnalyticsProvider                                                 *)
(***************************************************************************)
(* \d+ and [a-z]{2} on one atom of a parameter name: a name is a letter run,
   a digit run, a letter run, ... *)
DigitRuns == {"1", "2", "12"}
TwoLetters == {"id", "nm", "cr", "ps", "br", "ca", "va", "pr", "qt", "cc",
               "cd", "cm", "cg", "il", "pi", "zz"}

(* lookup[RegExp.$2] || "" *)
GaLookup(lookup, a) == IF a \in DOMAIN lookup THEN lookup[a] ELSE ""
PromotionLookup == [a \in {"id", "nm", "cr", "ps"} |->
    CASE a = "id" -> "ID" [] a = "nm" -> "Name" [] a = "cr" -> "Creative"
      [] a = "ps" -> "Position"]
ProductLookup == [a \in {"id", "nm", "br", "ca", "va", "pr", "qt", "cc", "ps"} |->
    CASE a = "id" -> "ID" [] a = "nm" -> "Name" [] a = "br" -> "Brand"
      [] a = "ca" -> "Category" [] a = "va" -> "Variant" [] a = "pr" -> "Price"
      [] a = "qt" -> "Quantity" [] a = "cc" -> "Coupon Code"
      [] a = "ps" -> "Position"]
DimensionLookup == [a \in {"cd", "cm"} |->
    CASE a = "cd" -> "Dimension" [] a = "cm" -> "Metric"]
ImpressionLookup == [a \in {"id", "nm", "br", "ca", "va", "pr", "ps"} |->
    CASE a = "id" -> "ID" [] a = "nm" -> "Name" [] a = "br" -> "Brand"
      [] a = "ca" -> "Category" [] a = "va" -> "Variant" [] a = "pr" -> "Price"
      [] a = "ps" -> "Position"]

(* GoogleAnalyticsProvider.handleQueryParam: the families of numbered
   parameters, tried in the order of the source, then the catalog. *)
GaHandleQueryParam(name, value) ==
    LET n == Len(name)
        at(i) == Fold(name[i], TRUE)
        digits(i) == name[i] \in DigitRuns
        result(field, group) == <<Field(Join(name), field, value, group)>>
    IN IF n = 2 /\ at(1) = "cg" /\ digits(2)
       THEN result("Content Group " \o name[2], "contentgroup")
       ELSE IF n = 2 /\ at(1) = "cd" /\ digits(2)
       THEN result("Dimension " \o name[2], "dimensions")
       ELSE IF n = 2 /\ at(1) = "cm" /\ digits(2)
       THEN result("Metric " \o name[2], "metrics")
       ELSE IF n = 3 /\ at(1) = "promo" /\ digits(2) /\ at(3) \in TwoLetters
       THEN result("Promotion " \o name[2] \o " "
                       \o GaLookup(PromotionLookup, name[3]), "ecommerce")
       ELSE IF n = 3 /\ at(1) = "pr" /\ digits(2) /\ at(3) \in TwoLetters
       THEN result("Product " \o name[2] \o " "
                       \o GaLookup(ProductLookup, name[3]), "ecommerce")
       ELSE IF n = 4 /\ at(1) = "pr" /\ digits(2) /\ at(3) \in {"cd", "cm"}
               /\ digits(4)
       THEN result("Product " \o name[2] \o " "
                       \o GaLookup(DimensionLookup, name[3]) \o " " \o name[4],
                   "ecommerce")
       ELSE IF n = 3 /\ at(1) = "il" /\ digits(2) /\ at(3) = "nm"
       THEN result("Impression List " \o name[2], "ecommerce")
       ELSE IF n = 6 /\ at(1) = "il" /\ digits(2) /\ at(3) = "pi" /\ digits(4)
               /\ at(5) \in {"cd", "cm"} /\ digits(6)
       THEN result("Impression List " \o name[2] \o " Product " \o name[4]
                       \o " " \o GaLookup(DimensionLookup, name[5]) \o " "
                       \o name[6], "ecommerce")
       ELSE IF n = 5 /\ at(1) = "il" /\ digits(2) /\ at(3) = "pi" /\ digits(4)
               /\ at(5) \in TwoLetters
       THEN result("Impression List " \o name[2] \o " Product " \o name[4]
                       \o " " \o GaLookup(ImpressionLookup, name[5]), "ecommerce")
       ELSE BaseHandleQueryParam(GoogleAnalyticsProvider, name, value)

(* params.get("t").toLowerCase(), on the hit types sent here. *)
HitTypeLower(t) ==
    CASE t \in {"pageview", "event", "screenview"} -> t
      [] t = "Pageview" -> "pageview"

(* hitType.charAt(0).toUpperCase() + hitType.slice(1) *)
HitTypeCapital(hitType) ==
    CASE hitType = "screenview" -> "Screenview"

(* GoogleAnalyticsProvider.handleCustom: the host field and the hidden
   request type, under the key "omnibug_requestType". *)
GaHandleCustom(u, params) ==
    LET hitType == HitTypeLower(Get(params, <<"t">>))
        named == [h \in {"pageview", "event", "transaction", "item", "social",
                         "timing", "exception"} |->
                    CASE h = "pageview" -> "Page View"
                      [] h = "event" -> "Event"
                      [] h = "transaction" -> "Transaction"
                      [] h = "item" -> "Item"
                      [] h = "social" -> "Social"
                      [] h = "timing" -> "Timing"
                      [] h = "exception" -> "Exception"]
        requestType == IF Has(params, <<"t">>)
                       THEN IF hitType \in DOMAIN named THEN named[hitType]
                            ELSE HitTypeCapital(hitType)
                       ELSE "Other"
    IN <<Field("omnibug_hostname", "Google Analytics Host", u.host, "general"),
         HiddenField("omnibug_requestType", requestType)>>

(***************************************************************************)
(* The hooks of a provider, as parseUrl calls them                         *)
(***************************************************************************)
(* this.handleQueryParam(key, value) *)
handleQueryParam(p, name, value) ==
    CASE p = FacebookPixelProvider -> FacebookHandleQueryParam(name, value)
      [] p = TikTokProvider -> TikTokHandleQueryParam(name, value)
      [] p = PinterestProvider -> PinterestHandleQueryParam(name, value)
      [] p = GoogleAnalyticsProvider -> GaHandleQueryParam(name, value)
      [] p \in {BaseProvider, GoogleTagManagerProvider} ->
            BaseHandleQueryParam(p, name, value)

(* this.handleCustom(url, params): BaseProvider's returns nothing. *)
handleCustom(p, u, params) ==
    CASE p = GoogleTagManagerProvider -> GtmHandleCustom(u, params)
      [] p = FacebookPixelProvider -> FacebookHandleCustom(u, params)
      [] p = TikTokProvider -> TikTokHandleCustom(u, params)
      [] p = PinterestProvider -> PinterestHandleCustom(u, params)
      [] p = GoogleAnalyticsProvider -> GaHandleCustom(u, params)
      [] p = BaseProvider -> <<>>

(***************************************************************************)
(* BaseProvider.parseUrl                                                   *)
(***************************************************************************)
(* A ParseResult, or the exception that left the call. *)
Result(p, data, error) ==
    [thrown |-> FALSE, provider |-> ProviderInfo(p), data |-> data, error |-> error]
Thrown(message) == [thrown |-> TRUE, message |-> message]

InvalidUrl == "Invalid URL"
NoToString == "Cannot read properties of null (reading 'toString')"

(* A merge that puts the decoded pairs before the URL's parameters. *)
PrependPairs(params, pairs) ==
    [i \in 1 .. Len(pairs) |-> Param(pairs[i].k, JsString(pairs[i].v))] \o params

(* params.append(pair[0], pair[1]) for every decoded pair. *)
AppendPairs(params, pairs) ==
    params \o [i \in 1 .. Len(pairs) |-> Param(pairs[i].k, JsString(pairs[i].v))]

RECURSIVE ParamFields(_, _)
(* The loop over the parameters: the fields of each, in order. *)
ParamFields(p, params) ==
    IF params = <<>> THEN <<>>
    ELSE handleQueryParam(p, Head(params).k, Head(params).v)
         \o ParamFields(p, Tail(params))

BaseParseUrl(p, u, postData) ==
    IF ~u.abs THEN Result(p, <<>>, InvalidUrl)
    ELSE IF parsePostDataThrows(postData) THEN Result(p, <<>>, NoToString)
    ELSE LET params == AppendPairs(u.query, parsePostData(postData))
         IN Result(p, ParamFields(p, params) \o handleCustom(p, u, params), Absent)

(***************************************************************************)
(* AdobeWebSdkProvider                                                     *)
(***************************************************************************)
(* The deepest level processXdmObject descends to. *)
XdmMaxDepth == 10

(* The atoms that contain the word as a substring. *)
AtomsWith(word) ==
    CASE word = "analytics" -> {"analytics", "_analytics"}
      [] word = "target" -> {"target", "targetId"}
      [] word = "identity" -> {"identity", "identityMap"}
      [] word = "__adobe" -> {"__adobe"}

(* String.prototype.includes(word) of a key or a path. *)
HasWord(atoms, word) == \E i \in 1 .. Len(atoms) : atoms[i] \in AtomsWith(word)

XdmGroup(key, fullKey, prefix) ==
    IF HasWord(key, "analytics") \/ HasWord(fullKey, "analytics") THEN "analytics"
    ELSE IF HasWord(key, "target") \/ HasWord(fullKey, "target") THEN "target"
    ELSE IF HasWord(key, "identity") \/ key = <<"ECID">> \/ HasWord(fullKey, "identity")
         THEN "identity"
    ELSE IF HasWord(prefix, "__adobe")
         THEN (IF HasWord(prefix, "target") THEN "target"
               ELSE IF HasWord(prefix, "analytics") THEN "analytics"
               ELSE "xdm")
    ELSE "xdm"

RECURSIVE JoinCommaSpace(_)
(* Array.prototype.join(", ") *)
JoinCommaSpace(items) ==
    IF items = <<>> THEN ""
    ELSE (IF Head(items).t = "null" THEN "" ELSE ToStringOf(Head(items)))
         \o (IF Len(items) > 1 THEN ", " ELSE "")
         \o JoinCommaSpace(Tail(items))

RECURSIVE processXdmObject(_, _, _)
RECURSIVE XdmEntries(_, _, _)
RECURSIVE XdmItems(_, _, _, _, _, _)
processXdmObjectLate(obj, prefix, depth) ==
    IF depth > XdmMaxDepth + 1
    THEN <<Field(Join(prefix) \o ".maxDepthExceeded",
                 Join(prefix) \o " (Max Depth Exceeded)",
                 "Object too deep to display fully", "xdm")>>
    ELSE XdmEntries(ObjectEntries(obj), prefix, depth)

processXdmObject(obj, prefix, depth) ==
    IF depth > XdmMaxDepth
    THEN <<Field(Join(prefix) \o ".maxDepthExceeded",
                 Join(prefix) \o " (Max Depth Exceeded)",
                 "Object too deep to display fully", "xdm")>>
    ELSE XdmEntries(ObjectEntries(obj), prefix, depth)

(* The loop over Object.entries(obj). *)
XdmEntries(entries, prefix, depth) ==
    IF entries = <<>> THEN <<>>
    ELSE LET key == Head(entries).k
             value == Head(entries).v
             fullKey == IF prefix # <<>> THEN prefix \o <<".">> \o key ELSE key
             group == XdmGroup(key, fullKey, prefix)
             fieldName == Join(key)
             here ==
               CASE value.t = "null" -> <<Field(Join(fullKey), fieldName, "null", group)>>
                 [] value.t = "obj" -> processXdmObject(value, fullKey, depth + 1)
                 [] value.t = "arr" ->
                      IF value.items = <<>>
                      THEN <<Field(Join(fullKey), fieldName, "[]", group)>>
                      ELSE IF value.items[1].t \in {"obj", "arr", "null"}
                      THEN XdmItems(value.items, 0, fullKey, fieldName, group, depth)
                      ELSE <<Field(Join(fullKey), fieldName,
                                   JoinCommaSpace(value.items), group)>>
                 [] OTHER -> <<Field(Join(fullKey), fieldName, JsString(value), group)>>
         IN here \o XdmEntries(Tail(entries), prefix, depth)

(* value.forEach of an array whose first item is an object. *)
XdmItems(items, idx, fullKey, fieldName, group, depth) ==
    IF items = <<>> THEN <<>>
    ELSE LET item == Head(items)
             at == <<"[", ToString(idx), "]">>
         IN (IF item.t \in {"obj", "arr"}
             THEN processXdmObject(item, fullKey \o at, depth + 1)
             ELSE <<Field(Join(fullKey \o at), fieldName \o Join(at),
                          JsString(item), group)>>)
            \o XdmItems(Tail(items), idx + 1, fullKey, fieldName, group, depth)

(* Whether processPostData throws: a property read on null. *)
processPostDataThrows(postData) ==
    \/ postData.t = "null"
    \/ /\ GetMember(postData, <<"events">>).t = "arr"
       /\ \E i \in 1 .. Len(GetMember(postData, <<"events">>).items) :
              GetMember(postData, <<"events">>).items[i].t = "null"

(* The part of an event under one of its xdm, data, meta and query members. *)
EventPart(event, index, part) ==
    IF JsTruthy(GetMember(event, <<part>>))
    THEN processXdmObject(GetMember(event, <<part>>),
                          <<"events", "[", ToString(index), "]", ".", part>>, 0)
    ELSE <<>>

RECURSIVE EventFields(_, _)
(* eventData.forEach *)
EventFields(events, index) ==
    IF events = <<>> THEN <<>>
    ELSE LET event == Head(events)
         IN (IF JsTruthy(GetMember(event, <<"eventType">>))
             THEN <<Field("events[" \o ToString(index) \o "].eventType",
                          "Event Type (" \o ToString(index) \o ")",
                          ToStringOf(GetMember(event, <<"eventType">>)), "general")>>
             ELSE <<>>)
            \o EventPart(event, index, "xdm")
            \o EventPart(event, index, "data")
            \o EventPart(event, index, "meta")
            \o EventPart(event, index, "query")
            \o EventFields(Tail(events), index + 1)

(* The fields processPostData returns when it does not throw. *)
processPostData(postData) ==
    IF GetMember(postData, <<"events">>).t = "arr"
    THEN (IF JsTruthy(GetMember(postData, <<"configId">>))
          THEN <<Field("configId", "Configuration ID",
                       ToStringOf(GetMember(postData, <<"configId">>)), "general")>>
          ELSE <<>>)
         \o EventFields(GetMember(postData, <<"events">>).items, 0)
    ELSE <<>>

NotJson == "Unexpected token"
NullRead == "Cannot read properties of null"

(* The part of AdobeWebSdkProvider.parseUrl inside its try block. *)
WebSdkBodyFields(postData) ==
    LET b == DefaultBody(postData)
    IN IF ~Truthy(b) THEN <<>>
       ELSE IF b.kind = "string" /\ ~b.json
       THEN <<Field("error", "Error Parsing Request", NotJson, "other")>>
       ELSE IF processPostDataThrows(b.value)
       THEN <<Field("error", "Error Parsing Request", NullRead, "other")>>
       ELSE processPostData(b.value)

(* AdobeWebSdkProvider.parseUrl: new URL(rawUrl) stands outside the try. *)
WebSdkParseUrl(u, postData) ==
    IF ~u.abs THEN Thrown(InvalidUrl)
    ELSE Result(AdobeWebSdkProvider,
                <<Field("endpoint", "Endpoint", u.host, "general"),
                  Field("trackingServer", "Tracking Server", u.host, "general")>>
                \o WebSdkBodyFields(postData)
                \o <<HiddenField("requestType", "Interact")>>,
                Absent)

(* provider.parseUrl(rawUrl, postData) *)
parseUrl(p, u, postData) ==
    IF p = AdobeWebSdkProvider THEN WebSdkParseUrl(u, postData)
    ELSE BaseParseUrl(p, u, postData)

(***************************************************************************)
(* Request bodies and captured requests used as inputs                     *)
(***************************************************************************)
NotValidBody == PlainText(<<"{", "{", "{", "not valid">>)
BadEscapeBody == PlainText(<<"x", "=", "1", "&", "y", "=", "%", "&", "z", "=", "2">>)
FormBody == PlainText(<<"id", "=", "7", "&", "requestType", "=", "h", "&",
                        "k", "=", "a", "%", "3D", "b", "=", "c", "&", "y">>)
JsonBody == JsonText(JObj(<<Member(<<"a">>, JArr(<<JNum(1), JObj(<<>>)>>)),
                            Member(<<"b">>, JObj(<<Member(<<"c">>, JNull)>>))>>))
EventsBody == JsonText(JObj(<<
    Member(<<"configId">>, JStr("cfg")),
    Member(<<"events">>, JArr(<<JObj(<<
        Member(<<"eventType">>, JStr("pageview")),
        Member(<<"xdm">>, JObj(<<
            Member(<<"identity">>, JObj(<<Member(<<"ECID">>, JStr("123"))>>))>>))>>)>>))>>))
NullEntryBody == ObjectBody(JObj(<<Member(<<"a">>, JStr("1")), Member(<<"b">>, JNull)>>))
FormObjectBody == ObjectBody(JObj(<<Member(<<"a">>, JNum(1)),
                                    Member(<<"l">>, JArr(<<JStr("x"), JNull>>))>>))

EmptyObjectBody == JsonText(JObj(<<>>))
EmptyArrayBody == JsonText(JArr(<<>>))
ScalarBody == JsonText(JNum(5))

RECURSIVE Nest(_)
(* {"a": {"a": ... 1}} with n objects around the leaf. *)
Nest(n) == IF n = 0 THEN JNum(1) ELSE JObj(<<Member(<<"a">>, Nest(n - 1))>>)

(* A body nested two levels deeper than the deepest level processXdmObject
   descends to. *)
DeepBody == JsonText(Nest(XdmMaxDepth + 2))

Bodies == {Undefined, PlainText(<<>>), NotValidBody, BadEscapeBody, FormBody,
           JsonBody, EventsBody, NullEntryBody, FormObjectBody}

(* Adobe Web SDK bodies: one event with leaves of every group and one
   without an eventType, an event with an array that starts with a string,
   and an event
   whose xdm nests its leaf n objects deep. *)
XdmEvent(eventType, xdm) ==
    JObj(<<Member(<<"eventType">>, eventType), Member(<<"xdm">>, xdm)>>)
XdmBody(events) == JsonText(JObj(<<Member(<<"events">>, JArr(events))>>))
XdmGroupsBody ==
    XdmBody(<<XdmEvent(JStr("web.pageview"), JObj(<<
                Member(<<"ECID">>, JStr("9")),
                Member(<<"identityMap">>, JObj(<<
                    Member(<<"ids">>, JArr(<<JObj(<<Member(<<"id">>, JNum(1))>>)>>))>>)),
                Member(<<"web">>, JObj(<<Member(<<"name">>, JStr("home")),
                                         Member(<<"target">>, JBool(TRUE))>>)),
                Member(<<"_analytics">>, JObj(<<
                    Member(<<"targetId">>, JStr("t"))>>))>>)),
              JObj(<<Member(<<"xdm">>, JObj(<<Member(<<"n">>, JNum(0))>>))>>)>>)
XdmArrayBody ==
    XdmBody(<<XdmEvent(JStr("click"), JObj(<<
                Member(<<"tags">>, JArr(<<JStr("a"),
                                          JObj(<<Member(<<"k">>, JStr("v"))>>)>>))>>))>>)
XdmDeepBody(n) == XdmBody(<<XdmEvent(JStr("deep"), Nest(n))>>)
RECURSIVE NestOver(_, _)
(* A value below n objects. *)
NestOver(n, v) == IF n = 0 THEN v ELSE JObj(<<Member(<<"a">>, NestOver(n - 1, v))>>)
(* An xdm whose object at the deepest level holds a leaf and an array of
   two objects. *)
XdmDeepArrayBody ==
    XdmBody(<<XdmEvent(JStr("deep"), NestOver(XdmMaxDepth, JObj(<<
                Member(<<"z">>, JNum(1)),
                Member(<<"list">>, JArr(<<JObj(<<Member(<<"b">>, JNum(1))>>),
                                          JObj(<<Member(<<"c">>, JNum(2))>>)>>))>>)))>>)
XdmBodies == {XdmGroupsBody, XdmArrayBody, XdmDeepArrayBody,
              XdmDeepBody(XdmMaxDepth + 1), XdmDeepBody(XdmMaxDepth + 2),
              XdmDeepBody(XdmMaxDepth + 3)}

(* The requests and bodies handed to the pixel providers. *)
PixelClasses == {FacebookPixelProvider, TikTokProvider, PinterestProvider}
PixelUrls == {FbUrl(JsonStringify(CdValue), JsonStringify(UdValue)),
              FbUrl(BadJsonText, PercentText), FbUrl("null", BadJsonText),
              FbPageViewUrl,
              TkUrl(JsonStringify(TkValue)), TkUrl(BadJsonText), TkTrackUrl,
              PinUrl(JsonStringify(EdValue)), PinUrl(BadJsonText),
              RelativePixelUrl}
PixelBodies == {Undefined, FormBody}

(* The URLs that are matched against the registry. *)
MatchUrls == Urls \cup {GaUrl, ClarityUrl, LaunchUrl, FbPageViewUrl, TkTrackUrl}

(* The bodies handed to the body decoder alone. *)
DecoderBodies == Bodies \cup {EmptyObjectBody, EmptyArrayBody, ScalarBody, DeepBody}

(* A captured request. *)
Request(u, method, postData) == [url |-> u, method |-> method, postData |-> postData]

Requests == {Request(GtmUrl, "GET", Undefined),
             Request(GtmInteractUrl, "POST", EventsBody),
             Request(RelativeUrl, "POST", EventsBody),
             Request(InteractUrl, "POST", JsonBody),
             Request(GtmUpperUrl, "GET", Undefined),
             Request(PageUrl, "GET", Undefined),
             Request(FbPageViewUrl, "GET", Undefined)}

(* Captured Universal Analytics hits, alone and after a container load. *)
GaRequests == {Request(GaPageViewUrl, "GET", Undefined),
               Request(GaScreenViewUrl, "GET", Undefined),
               Request(GaUrl, "GET", Undefined)}
GaRequestLists == {<<r>> : r \in GaRequests}
                  \cup {<<Request(GtmUrl, "GET", Undefined), r>> : r \in GaRequests}

(* Longest list of captured requests handed to a request loop. *)
MaxRequests == 2

RequestLists == UNION {[1 .. n -> Requests] : n \in 0 .. MaxRequests}

(***************************************************************************)
(* ProviderRegistry                                                        *)
(***************************************************************************)
KeyIndex(ps, k) == {i \in 1 .. Len(ps) : ProviderKey(ps[i]) = k}

(* A registry that puts a new provider first. *)
PutProviderFirst(ps, p) ==
    IF KeyIndex(ps, ProviderKey(p)) = {} THEN <<p>> \o ps
    ELSE [i \in 1 .. Len(ps) |-> IF i \in KeyIndex(ps, ProviderKey(p)) THEN p ELSE ps[i]]

(* this.providers[provider.key] = provider: a property keeps the position of
   its first assignment and a new one goes last (no key is an array index). *)
PutProvider(ps, p) ==
    IF KeyIndex(ps, ProviderKey(p)) = {} THEN Append(ps, p)
    ELSE [i \in 1 .. Len(ps) |-> IF i \in KeyIndex(ps, ProviderKey(p)) THEN p ELSE ps[i]]

(* defaultPatterns.map(pattern => pattern.source) *)
Sources(patterns) == [i \in 1 .. Len(patterns) |-> patterns[i].re]

(* ProviderRegistry.addProvider on the three fields of a registry. *)
addProvider(registry, p) ==
    LET patterns == Append(registry.defaultPatterns, ProviderPattern(p))
    IN [providers |-> PutProvider(registry.providers, p),
        defaultPatterns |-> patterns,
        defaultPatternRegex |-> NewRegExp(Sources(patterns), TRUE)]

RECURSIVE AddAll(_, _)
AddAll(registry, ps) ==
    IF ps = <<>> THEN registry
    ELSE AddAll(addProvider(registry, Head(ps)), Tail(ps))

(* initializeProviders: the registry after its eleven addProvider calls. *)
initializeProviders(registry) == AddAll(registry, InitialProviders)

(* ProviderRegistry.checkUrl *)
RegistryCheckUrl(regex, u) == Test(regex, Raw(u))

(* providerInfo: the keys it names, each with its enabled flag. *)
NoInfo == [k \in {} |-> TRUE]
Disabled(ks) == [k \in ks |-> FALSE]
ProviderInfos == {NoInfo,
                  Disabled({ProviderKey(GoogleTagManagerProvider)}),
                  Disabled({ProviderKey(p) : p \in Registrable})}

(* ProviderRegistry.getPattern: the sources of the providers that
   providerInfo does not name or names as enabled, joined by "|". *)
getPattern(ps, providerInfo) ==
    LET on == {i \in 1 .. Len(ps) :
                  \/ ProviderKey(ps[i]) \notin DOMAIN providerInfo
                  \/ providerInfo[ProviderKey(ps[i])]}
        patterns == [j \in 1 .. Cardinality(on) |->
                        PatternSource(ps[CHOOSE i \in on :
                            Cardinality({h \in on : h < i}) = j - 1])]
    IN NewRegExp(patterns, TRUE)

RECURSIVE getMatchingProviders(_, _)
getMatchingProviders(ps, u) ==
    IF ps = <<>> THEN <<>>
    ELSE (IF ProviderCheckUrl(Head(ps), u) THEN <<Head(ps)>> ELSE <<>>)
         \o getMatchingProviders(Tail(ps), u)

(* A lookup that falls back on the first registered provider. *)
FirstRegisteredProvider(ps, u) ==
    IF \E i \in 1 .. Len(ps) : ProviderCheckUrl(ps[i], u)
    THEN ps[CHOOSE i \in 1 .. Len(ps) :
                /\ ProviderCheckUrl(ps[i], u)
                /\ \A j \in 1 .. (i - 1) : ~ProviderCheckUrl(ps[j], u)]
    ELSE IF ps # <<>> THEN ps[1] ELSE BaseProvider

RECURSIVE getProviderForUrl(_, _)
getProviderForUrl(ps, u) ==
    IF ps = <<>> THEN BaseProvider
    ELSE IF ProviderCheckUrl(Head(ps), u) THEN Head(ps)
    ELSE getProviderForUrl(Tail(ps), u)

(* ProviderRegistry.parseUrl *)
RegistryParseUrl(ps, u, postData) ==
    parseUrl(getProviderForUrl(ps, u), u, DefaultBody(postData))

RECURSIVE ParseEach(_, _, _)
(* The loop of parseUrlWithAllProviders: an exception leaves the loop. *)
ParseEach(matching, u, postData) ==
    IF matching = <<>> THEN [thrown |-> FALSE, results |-> <<>>]
    ELSE LET first == parseUrl(Head(matching), u, postData)
             rest == ParseEach(Tail(matching), u, postData)
         IN IF first.thrown THEN first
            ELSE IF rest.thrown THEN rest
            ELSE [thrown |-> FALSE, results |-> <<first>> \o rest.results]

parseUrlWithAllProviders(ps, u, postData) ==
    ParseEach(getMatchingProviders(ps, u), u, DefaultBody(postData))

(***************************************************************************)
(* The request loop of scan-marketing-stack                                *)
(***************************************************************************)
ScanEntry(request, p, parsed) ==
    [url |-> request.url, provider |-> ProviderName(p), type |-> ProviderType(p),
     data |-> parsed.data, error |-> Absent]
ScanError(request, message) ==
    [url |-> request.url, provider |-> Absent, type |-> Absent, data |-> <<>>,
     error |-> message]

RECURSIVE ScanProviders(_, _)
(* The loop over the matching providers inside the try: an exception ends
   it, and the catch pushes one error entry. *)
ScanProviders(request, matching) ==
    IF matching = <<>> THEN <<>>
    ELSE LET parsed == parseUrl(Head(matching), request.url, Undefined)
         IN IF parsed.thrown THEN <<ScanError(request, parsed.message)>>
            ELSE <<ScanEntry(request, Head(matching), parsed)>>
                 \o ScanProviders(request, Tail(matching))

RECURSIVE scanRequests(_, _, _)
(* analyticsRequests after the loop over the captured requests. *)
scanRequests(ps, regex, requests) ==
    IF requests = <<>> THEN <<>>
    ELSE (IF RegistryCheckUrl(regex, Head(requests).url)
          THEN ScanProviders(Head(requests),
                             getMatchingProviders(ps, Head(requests).url))
          ELSE <<>>)
         \o scanRequests(ps, regex, Tail(requests))

(* The fields that name an account. *)
AccountFields == {"Account", "Tracking ID", "Pixel ID", "Container ID", "Report Suites"}

(* A detection: properties.account is the value of the first account field
   of the request's data, when there is one. *)
Detection(request) ==
    LET found == {i \in 1 .. Len(request.data) : request.data[i].field \in AccountFields}
    IN [name |-> request.provider, detectionMethod |-> "network request",
        account |-> IF found = {} THEN Absent
                    ELSE request.data[CHOOSE i \in found : \A h \in found : i <= h].value]

(* The list of detectedTech a request type is pushed to. *)
Category(type) ==
    CASE type = "Analytics" -> "analytics"
      [] type = "Marketing" -> "advertising"
      [] type = "Tag Management" -> "tagmanagers"
      [] OTHER -> "other"

NoDetections ==
    [c \in {"analytics", "advertising", "tagmanagers", "other"} |-> <<>>]

RECURSIVE networkDetections(_, _, _)
(* analyticsRequests.forEach: the first request of every provider/type pair
   is pushed to the list of its type. *)
networkDetections(analyticsRequests, seenProviders, detectedTech) ==
    IF analyticsRequests = <<>> THEN detectedTech
    ELSE LET request == Head(analyticsRequests)
             providerKey == request.provider \o "-" \o request.type
         IN IF providerKey \in seenProviders
            THEN networkDetections(Tail(analyticsRequests), seenProviders, detectedTech)
            ELSE networkDetections(
                     Tail(analyticsRequests), seenProviders \cup {providerKey},
                     [detectedTech EXCEPT ![Category(request.type)] =
                         Append(@, Detection(request))])

(***************************************************************************)
(* processAnalyticsBeacons                                                 *)
(***************************************************************************)
(* options.providerTypes: <<>> stands for an option left out. *)
NoOptions == [providerTypes |-> <<>>]
AnalyticsOnly == [providerTypes |-> <<"analytics">>]
OptionSets == {NoOptions, AnalyticsOnly}

(* The time of processing, for a request without a timestamp. *)
Now == 0

(* parsedData.data.find(d => d.key === 'requestType')?.value || 'Unknown' *)
RequestTypeOf(data) ==
    IF \E i \in 1 .. Len(data) : data[i].key = "requestType"
    THEN LET v == data[CHOOSE i \in 1 .. Len(data) :
                          /\ data[i].key = "requestType"
                          /\ \A j \in 1 .. (i - 1) : data[j].key # "requestType"].value
         IN IF v # "" THEN v ELSE "Unknown"
    ELSE "Unknown"

Beacon(request, p, parsed) ==
    [url |-> request.url, method |-> request.method, timestamp |-> Now,
     provider |-> ProviderName(p), providerKey |-> ProviderKey(p),
     type |-> ProviderType(p), requestType |-> RequestTypeOf(parsed.data),
     parsedData |-> parsed.data, groups |-> parsed.provider.groups]

(* matchingProviders.filter(provider => providerTypes.includes(provider.type)) *)
RECURSIVE FilterTypes(_, _)
FilterTypes(matching, types) ==
    IF matching = <<>> THEN <<>>
    ELSE (IF \E i \in 1 .. Len(types) : types[i] = ProviderType(Head(matching))
          THEN <<Head(matching)>> ELSE <<>>)
         \o FilterTypes(Tail(matching), types)

RECURSIVE BeaconsOf(_, _)
(* The loop over the filtered providers: the try is inside the loop. *)
BeaconsOf(request, filtered) ==
    IF filtered = <<>> THEN <<>>
    ELSE LET parsed == parseUrl(Head(filtered), request.url,
                                IF Truthy(request.postData) THEN request.postData
                                ELSE PlainText(<<>>))
         IN (IF parsed.thrown THEN <<>> ELSE <<Beacon(request, Head(filtered), parsed)>>)
            \o BeaconsOf(request, Tail(filtered))

RECURSIVE BeaconLoop(_, _, _, _)
BeaconLoop(ps, regex, requests, options) ==
    IF requests = <<>> THEN <<>>
    ELSE LET request == Head(requests)
             matching == getMatchingProviders(ps, request.url)
             filtered == IF options.providerTypes # <<>>
                         THEN FilterTypes(matching, options.providerTypes)
                         ELSE matching
         IN (IF RegistryCheckUrl(regex, request.url)
             THEN BeaconsOf(request, filtered) ELSE <<>>)
            \o BeaconLoop(ps, regex, Tail(requests), options)

RECURSIVE SortByTimestamp(_)
(* Array.prototype.sort with the timestamp comparator: a stable sort. *)
SortByTimestamp(beacons) ==
    IF beacons = <<>> THEN <<>>
    ELSE LET sorted == SortByTimestamp(SubSeq(beacons, 1, Len(beacons) - 1))
             last == beacons[Len(beacons)]
             n == Cardinality({i \in 1 .. Len(sorted) :
                                  sorted[i].timestamp <= last.timestamp})
         IN SubSeq(sorted, 1, n) \o <<last>> \o SubSeq(sorted, n + 1, Len(sorted))

processAnalyticsBeacons(ps, regex, requests, options) ==
    LET beacons == BeaconLoop(ps, regex, requests, options)
    IN [beacons |-> SortByTimestamp(beacons),
        summary |-> [totalRequests |-> Len(requests),
                     analyticsRequests |-> Len(beacons),
                     providers |-> [n \in {beacons[i].provider : i \in 1 .. Len(beacons)} |->
                         Cardinality({i \in 1 .. Len(beacons) : beacons[i].provider = n})]]]

(***************************************************************************)
(* captureAnalyticsBeacons                                                 *)
(***************************************************************************)
(* A request the page makes, as the request handler sees it. *)
PageRequest(request, resourceType) == [request |-> request, resourceType |-> resourceType]

(* requests.push in the request handler: url, method, resourceType, headers
   and time are stored; a property that is not stored reads as undefined. *)
Recorded(pageRequest) ==
    Request(pageRequest.request.url, pageRequest.request.method, Undefined)

RECURSIVE setupRequestInterception(_, _)
(* The requests array after the handler has seen the page's requests: a
   blocked resource type is aborted and not stored. *)
setupRequestInterception(pageRequests, options) ==
    IF pageRequests = <<>> THEN <<>>
    ELSE (IF Head(pageRequests).resourceType \in options.blockResources
          THEN <<>> ELSE <<Recorded(Head(pageRequests))>>)
         \o setupRequestInterception(Tail(pageRequests), options)

DefaultOptions == [waitTime |-> 3000, includeBody |-> TRUE,
                   providerTypes |-> <<"analytics">>]

(* { ...defaultOptions, ...options } *)
Config(options) ==
    [k \in DOMAIN DefaultOptions \cup DOMAIN options |->
        IF k \in DOMAIN options THEN options[k] ELSE DefaultOptions[k]]

captureAnalyticsBeacons(ps, regex, pageRequests, options) ==
    LET config == Config(options)
        requests == setupRequestInterception(
                        pageRequests,
                        [blockResources |-> {"image", "font", "media"},
                         captureBody |-> config.includeBody])
    IN processAnalyticsBeacons(ps, regex, requests, config)

(* The requests of a page and the options of a capture. *)
PageRequests == {PageRequest(Request(InteractUrl, "POST", EventsBody), "xhr"),
                 PageRequest(Request(GtmUrl, "GET", Undefined), "script"),
                 PageRequest(Request(FbPageViewUrl, "GET", Undefined), "image")}
PageRequestLists == UNION {[1 .. n -> PageRequests] : n \in 0 .. MaxRequests}
CaptureOptions == {[x \in {} |-> TRUE],
                   [providerTypes |-> <<>>],
                   [providerTypes |-> <<>>, includeBody |-> FALSE]}

(***************************************************************************)
(* The page: request interception under the parse-analytics-beacons tool   *)
(***************************************************************************)
(* Most requests a page emits in a behaviour. *)
MaxEmitted == 3

(* A request as the page hands it to a 'request' listener: response() is
   null when the event is delivered, and redirectChain() holds the requests
   that were redirected to this one. *)
HTTPRequest(request, resourceType, redirectChain) ==
    [request |-> request, resourceType |-> resourceType,
     response |-> FALSE, redirectChain |-> redirectChain]

HTTPRequests ==
    {HTTPRequest(Request(InteractUrl, "POST", EventsBody), "xhr", 0),
     HTTPRequest(Request(GtmUrl, "GET", Undefined), "script", 0),
     HTTPRequest(Request(FbPageViewUrl, "GET", Undefined), "image", 0),
     HTTPRequest(Request(InteractUrl, "POST", EventsBody), "xhr", 1)}

(* blockResources of both capture functions. *)
BlockResources == {"image", "font", "media"}

(* requestHandler: whether the request is pushed onto the handler's array,
   and how often it is aborted and continued.  The accessors of a request
   do not throw, so the catch branch is not taken. *)
requestHandler(blockResources, request) ==
    IF request.resourceType \in blockResources
    THEN [push |-> FALSE, abort |-> 1, continue |-> 0]
    ELSE [push |-> TRUE, abort |-> 0,
          continue |-> IF ~request.response /\ request.redirectChain = 0
                       THEN 1 ELSE 0]

(* A 'request' listener: its blockResources and the array it fills, by the
   position of the array among the arrays created so far. *)
Listener(blockResources, requests) ==
    [blockResources |-> blockResources, requests |-> requests]

(* A page without listeners, as browser.newPage() gives it. *)
NewPage == [interceptionSetup |-> FALSE, listeners |-> <<>>, closed |-> FALSE]

(* setupRequestInterception on a page: every call creates an array and
   returns it; a call that finds the page marked installs nothing, a call
   that does not removes the request listeners, marks the page and installs
   the handler that fills the new array. *)
InterceptionSetup(pg, arrs, options) ==
    LET requests == Len(arrs) + 1
        created == Append(arrs, <<>>)
    IN IF pg.interceptionSetup
       THEN [page |-> pg, arrays |-> created, requests |-> requests]
       ELSE [page |-> [pg EXCEPT !.interceptionSetup = TRUE,
                                 !.listeners =
                                     <<Listener(options.blockResources, requests)>>],
             arrays |-> created, requests |-> requests]

RECURSIVE Deliver(_, _, _)
(* The arrays after the listeners have handled a request, in the order of
   their installation. *)
Deliver(listeners, arrs, request) ==
    IF listeners = <<>> THEN arrs
    ELSE LET l == Head(listeners)
             did == requestHandler(l.blockResources, request)
         IN Deliver(Tail(listeners),
                    IF did.push
                    THEN [arrs EXCEPT ![l.requests] = Append(@, Recorded(request))]
                    ELSE arrs,
                    request)

RECURSIVE Count(_, _, _)
(* How often the listeners abort or continue a request. *)
Count(listeners, request, what) ==
    IF listeners = <<>> THEN 0
    ELSE (LET did == requestHandler(Head(listeners).blockResources, request)
          IN IF what = "abort" THEN did.abort ELSE did.continue)
         + Count(Tail(listeners), request, what)

(* The tool before an invocation. *)
NoTool == [pc |-> "none", simulateClick |-> FALSE, requests |-> 0,
           pageLoad |-> <<>>, interaction |-> <<>>]

PageInit ==
    /\ page = NewPage
    /\ arrays = <<>>
    /\ returned = <<>>
    /\ emitted = <<>>
    /\ tool = NoTool

(* parse-analytics-beacons: browser.newPage() and page.goto(url). *)
ToolGoto(simulateClick) ==
    /\ tool.pc = "none"
    /\ tool' = [tool EXCEPT !.pc = "goto", !.simulateClick = simulateClick]
    /\ UNCHANGED <<page, arrays, returned, emitted>>
    /\ UNCHANGED <<Engine, BrowserVars>>

(* The page emits a request, at any await of the tool: every listener
   handles it. *)
PageRequestEvent(request) ==
    /\ tool.pc \notin {"none", "closed"}
    /\ Len(emitted) < MaxEmitted
    /\ arrays' = Deliver(page.listeners, arrays, request)
    /\ emitted' = Append(emitted,
                         [request |-> request,
                          handlers |-> Len(page.listeners),
                          aborts |-> Count(page.listeners, request, "abort"),
                          continues |-> Count(page.listeners, request, "continue"),
                          calls |-> Len(returned),
                          pc |-> tool.pc])
    /\ UNCHANGED <<page, returned, tool>>
    /\ UNCHANGED <<Engine, BrowserVars>>

(* captureAnalyticsBeacons up to its wait. *)
CaptureSetup ==
    /\ tool.pc = "goto"
    /\ LET s == InterceptionSetup(page, arrays, [blockResources |-> BlockResources])
       IN /\ page' = s.page
          /\ arrays' = s.arrays
          /\ returned' = Append(returned, s.requests)
          /\ tool' = [tool EXCEPT !.pc = "waitTime", !.requests = s.requests]
    /\ UNCHANGED emitted
    /\ UNCHANGED <<Engine, BrowserVars>>

(* captureAnalyticsBeacons after its wait: the requests array is handed to
   processAnalyticsBeacons. *)
CaptureProcess ==
    /\ tool.pc = "waitTime"
    /\ tool' = [tool EXCEPT !.pc = "pageLoad", !.pageLoad = arrays[tool.requests]]
    /\ UNCHANGED <<page, arrays, returned, emitted>>
    /\ UNCHANGED <<Engine, BrowserVars>>

(* captureInteractionBeacons up to its first wait. *)
InteractionSetup ==
    /\ tool.pc = "pageLoad"
    /\ tool.simulateClick
    /\ LET s == InterceptionSetup(page, arrays, [blockResources |-> BlockResources])
       IN /\ page' = s.page
          /\ arrays' = s.arrays
          /\ returned' = Append(returned, s.requests)
          /\ tool' = [tool EXCEPT !.pc = "preWait", !.requests = s.requests]
    /\ UNCHANGED emitted
    /\ UNCHANGED <<Engine, BrowserVars>>

(* requests.length = 0, and the click. *)
InteractionClear ==
    /\ tool.pc = "preWait"
    /\ arrays' = [arrays EXCEPT ![tool.requests] = <<>>]
    /\ tool' = [tool EXCEPT !.pc = "click"]
    /\ UNCHANGED <<page, returned, emitted>>
    /\ UNCHANGED <<Engine, BrowserVars>>

(* captureInteractionBeacons after its second wait. *)
InteractionProcess ==
    /\ tool.pc = "click"
    /\ tool' = [tool EXCEPT !.pc = "interaction",
                            !.interaction = arrays[tool.requests]]
    /\ UNCHANGED <<page, arrays, returned, emitted>>
    /\ UNCHANGED <<Engine, BrowserVars>>

(* page.close(): the 'close' listener removes the handler and the mark. *)
PageClose ==
    /\ \/ tool.pc = "interaction"
       \/ tool.pc = "pageLoad" /\ ~tool.simulateClick
    /\ page' = [interceptionSetup |-> FALSE, listeners |-> <<>>, closed |-> TRUE]
    /\ tool' = [tool EXCEPT !.pc = "closed"]
    /\ UNCHANGED <<arrays, returned, emitted>>
    /\ UNCHANGED <<Engine, BrowserVars>>

(***************************************************************************)
(* The server: the shared browser of the tool invocations                  *)
(***************************************************************************)
(* Most calls of initBrowser in a behaviour. *)
MaxCalls == 3

(* The value of a variable that holds no browser: undefined or null. *)
NoBrowser == 0

(* A call of initBrowser: where it stands and the browser it returned. *)
InitBrowserCall(pc, ret) == [pc |-> pc, ret |-> ret]

(* !browser || !browser.connected *)
MustLaunch(b, launched) == b = NoBrowser \/ launched[b] # "connected"

(* The launched browsers that still run. *)
Alive(launched) == {b \in 1 .. Len(launched) : launched[b] = "connected"}

BrowserInit ==
    /\ browser = NoBrowser
    /\ browsers = <<>>
    /\ inits = <<>>
    /\ cleanup = [pc |-> "none", target |-> NoBrowser]

(* A tool invocation calls initBrowser, which runs to its first await or,
   when it reuses the browser, to its return. *)
InitBrowser ==
    /\ cleanup.pc # "exit"
    /\ Len(inits) < MaxCalls
    /\ inits' = Append(inits,
                       IF MustLaunch(browser, browsers)
                       THEN InitBrowserCall("launch", NoBrowser)
                       ELSE InitBrowserCall("return", browser))
    /\ UNCHANGED <<browser, browsers, cleanup>>
    /\ UNCHANGED <<Engine, PageVars>>

(* puppeteer.launch resolves: the browser is assigned and returned. *)
LaunchResolves(i) ==
    /\ cleanup.pc # "exit"
    /\ i \in DOMAIN inits
    /\ inits[i].pc = "launch"
    /\ browsers' = Append(browsers, "connected")
    /\ browser' = Len(browsers')
    /\ inits' = [inits EXCEPT ![i] = InitBrowserCall("return", browser')]
    /\ UNCHANGED cleanup
    /\ UNCHANGED <<Engine, PageVars>>

(* puppeteer.launch rejects: the error is logged and thrown again. *)
LaunchRejects(i) ==
    /\ cleanup.pc # "exit"
    /\ i \in DOMAIN inits
    /\ inits[i].pc = "launch"
    /\ inits' = [inits EXCEPT ![i] = InitBrowserCall("throw", NoBrowser)]
    /\ UNCHANGED <<browser, browsers, cleanup>>
    /\ UNCHANGED <<Engine, PageVars>>

(* A browser loses its connection. *)
Disconnect(b) ==
    /\ cleanup.pc # "exit"
    /\ b \in DOMAIN browsers
    /\ browsers[b] = "connected"
    /\ browsers' = [browsers EXCEPT ![b] = "disconnected"]
    /\ UNCHANGED <<browser, inits, cleanup>>
    /\ UNCHANGED <<Engine, PageVars>>

(* SIGINT or SIGTERM: cleanup up to its await, or to process.exit when
   there is no browser. *)
Cleanup ==
    /\ cleanup.pc = "none"
    /\ cleanup' = IF browser # NoBrowser
                  THEN [pc |-> "close", target |-> browser]
                  ELSE [pc |-> "exit", target |-> NoBrowser]
    /\ UNCHANGED <<browser, browsers, inits>>
    /\ UNCHANGED <<Engine, PageVars>>

(* browser.close() resolves: browser = null, then process.exit. *)
CloseResolves ==
    /\ cleanup.pc = "close"
    /\ browsers' = [browsers EXCEPT ![cleanup.target] = "closed"]
    /\ browser' = NoBrowser
    /\ cleanup' = [cleanup EXCEPT !.pc = "exit"]
    /\ UNCHANGED inits
    /\ UNCHANGED <<Engine, PageVars>>

(***************************************************************************)
(* The state machine: a registry and the calls made on it                  *)
(***************************************************************************)
(* call holds the call in progress with its result, until the caller takes
   the result; the engine is synchronous, so calls do not overlap. *)
NoCall == [op |-> "none"]
Idle == call.op \in {"none", "addProvider"}

Init ==
    /\ providers = <<>>
    /\ defaultPatterns = <<>>
    /\ defaultPatternRegex = NewRegExp(<<>>, FALSE)
    /\ added = <<>>
    /\ call = NoCall
    /\ PageInit
    /\ BrowserInit

Registry == <<providers, defaultPatterns, defaultPatternRegex, added>>

CallAddProvider(p) ==
    /\ Idle
    /\ Len(added) < MaxAdds
    /\ providers' = PutProvider(providers, p)
    /\ defaultPatterns' = Append(defaultPatterns, ProviderPattern(p))
    /\ defaultPatternRegex' = NewRegExp(Sources(defaultPatterns'), TRUE)
    /\ added' = Append(added, p)
    /\ call' = [op |-> "addProvider", provider |-> p]
    /\ UNCHANGED <<PageVars, BrowserVars>>

(* The module of the registry registers its providers when it is loaded,
   before any other use of the registry. *)
CallInitializeProviders ==
    /\ Idle
    /\ added = <<>>
    /\ LET registry == initializeProviders([providers |-> providers,
                                            defaultPatterns |-> defaultPatterns,
                                            defaultPatternRegex |-> defaultPatternRegex])
       IN /\ providers' = registry.providers
          /\ defaultPatterns' = registry.defaultPatterns
          /\ defaultPatternRegex' = registry.defaultPatternRegex
    /\ added' = InitialProviders
    /\ call' = [op |-> "initializeProviders"]
    /\ UNCHANGED <<PageVars, BrowserVars>>

CallCheckUrl(u) ==
    /\ Idle
    /\ call' = [op |-> "checkUrl", url |-> u,
                ret |-> RegistryCheckUrl(defaultPatternRegex, u)]
    /\ UNCHANGED Registry
    /\ UNCHANGED <<PageVars, BrowserVars>>

CallGetMatchingProviders(u) ==
    /\ Idle
    /\ call' = [op |-> "getMatchingProviders", url |-> u,
                ret |-> getMatchingProviders(providers, u)]
    /\ UNCHANGED Registry
    /\ UNCHANGED <<PageVars, BrowserVars>>

(* A parse that moves the provider it resolved to the front of the map. *)
CachingParseUrl(u, b) ==
    /\ Idle
    /\ call' = [op |-> "parseUrl", url |-> u, body |-> b,
                ret |-> RegistryParseUrl(providers, u, b)]
    /\ providers' =
           IF getMatchingProviders(providers, u) = <<>> THEN providers
           ELSE <<getProviderForUrl(providers, u)>>
                \o SelectSeq(providers, LAMBDA p : p # getProviderForUrl(providers, u))
    /\ UNCHANGED <<defaultPatterns, defaultPatternRegex, added>>
    /\ UNCHANGED <<PageVars, BrowserVars>>

CallParseUrl(u, b) ==
    /\ Idle
    /\ call' = [op |-> "parseUrl", url |-> u, body |-> b,
                ret |-> RegistryParseUrl(providers, u, b)]
    /\ UNCHANGED Registry
    /\ UNCHANGED <<PageVars, BrowserVars>>

CallParseUrlWithAllProviders(u, b) ==
    /\ Idle
    /\ call' = [op |-> "parseUrlWithAllProviders", url |-> u, body |-> b,
                ret |-> parseUrlWithAllProviders(providers, u, b)]
    /\ UNCHANGED Registry
    /\ UNCHANGED <<PageVars, BrowserVars>>

(* A provider's own parseUrl, called as the detection test script calls it. *)
CallProviderParseUrl(p, u, b) ==
    /\ Idle
    /\ call' = [op |-> "provider.parseUrl", provider |-> p, url |-> u, body |-> b,
                ret |-> parseUrl(p, u, DefaultBody(b))]
    /\ UNCHANGED Registry
    /\ UNCHANGED <<PageVars, BrowserVars>>

CallGetPattern(providerInfo) ==
    /\ Idle
    /\ call' = [op |-> "getPattern", providerInfo |-> providerInfo,
                ret |-> getPattern(providers, providerInfo)]
    /\ UNCHANGED Registry
    /\ UNCHANGED <<PageVars, BrowserVars>>

(* The body decoder, called on its own. *)
CallParsePostData(b) ==
    /\ Idle
    /\ call' = [op |-> "parsePostData", body |-> b,
                ret |-> IF parsePostDataThrows(b)
                        THEN Thrown(NoToString)
                        ELSE [thrown |-> FALSE, pairs |-> parsePostData(b)]]
    /\ UNCHANGED Registry
    /\ UNCHANGED <<PageVars, BrowserVars>>

CallScan(requests) ==
    /\ Idle
    /\ call' = [op |-> "scan", requests |-> requests,
                ret |-> scanRequests(providers, defaultPatternRegex, requests),
                detectedTech |->
                    networkDetections(
                        scanRequests(providers, defaultPatternRegex, requests),
                        {}, NoDetections)]
    /\ UNCHANGED Registry
    /\ UNCHANGED <<PageVars, BrowserVars>>

CallProcessAnalyticsBeacons(requests, options) ==
    /\ Idle
    /\ call' = [op |-> "processAnalyticsBeacons", requests |-> requests,
                options |-> options,
                ret |-> processAnalyticsBeacons(providers, defaultPatternRegex,
                                                requests, options)]
    /\ UNCHANGED Registry
    /\ UNCHANGED <<PageVars, BrowserVars>>

CallCaptureAnalyticsBeacons(pageRequests, options) ==
    /\ Idle
    /\ call' = [op |-> "captureAnalyticsBeacons", pageRequests |-> pageRequests,
                options |-> options,
                ret |-> captureAnalyticsBeacons(providers, defaultPatternRegex,
                                                pageRequests, options)]
    /\ UNCHANGED Registry
    /\ UNCHANGED <<PageVars, BrowserVars>>

Return ==
    /\ ~Idle
    /\ call' = NoCall
    /\ UNCHANGED Registry
    /\ UNCHANGED <<PageVars, BrowserVars>>

(* The URLs and bodies handed to the registry's parseUrl: every body with
   the general URLs, and the container URLs without a body. *)
ParseInputs == (Urls \X Bodies) \cup (ContainerUrls \X {Undefined})

(* The provider, URL and body of a parseUrl call on a provider: the general
   URLs and bodies, the Adobe Web SDK bodies, and the pixel requests. *)
ProviderParseInputs ==
    ((ProviderClasses \ PixelClasses) \X Urls \X Bodies)
    \cup ({AdobeWebSdkProvider} \X {InteractUrl} \X XdmBodies)
    \cup (PixelClasses \X PixelUrls \X PixelBodies)

Next ==
    \/ Return
    \/ \E p \in Registrable : CallAddProvider(p)
    \/ CallInitializeProviders
    \/ \E u \in MatchUrls : CallCheckUrl(u)
    \/ \E u \in MatchUrls : CallGetMatchingProviders(u)
    \/ \E in \in ParseInputs : CallParseUrl(in[1], in[2])
    \/ \E u \in Urls, b \in Bodies : CallParseUrlWithAllProviders(u, b)
    \/ \E in \in ProviderParseInputs : CallProviderParseUrl(in[1], in[2], in[3])
    \/ \E providerInfo \in ProviderInfos : CallGetPattern(providerInfo)
    \/ \E b \in DecoderBodies : CallParsePostData(b)
    \/ \E requests \in RequestLists : CallScan(requests)
    \/ \E requests \in RequestLists \cup GaRequestLists, options \in OptionSets :
           CallProcessAnalyticsBeacons(requests, options)
    \/ \E pageRequests \in PageRequestLists, options \in CaptureOptions :
           CallCaptureAnalyticsBeacons(pageRequests, options)

Spec == Init /\ [][Next]_vars

(* A tool invocation on its page. *)
PageNext ==
    \/ \E simulateClick \in BOOLEAN : ToolGoto(simulateClick)
    \/ \E request \in HTTPRequests : PageRequestEvent(request)
    \/ CaptureSetup
    \/ CaptureProcess
    \/ InteractionSetup
    \/ InteractionClear
    \/ InteractionProcess
    \/ PageClose

PageSpec == Init /\ [][PageNext]_vars

(* The tool invocations and the shutdown of the server, interleaved at
   their awaits. *)
BrowserNext ==
    \/ InitBrowser
    \/ \E i \in 1 .. MaxCalls : LaunchResolves(i)
    \/ \E i \in 1 .. MaxCalls : LaunchRejects(i)
    \/ \E b \in 1 .. MaxCalls : Disconnect(b)
    \/ Cleanup
    \/ CloseResolves

BrowserSpec == Init /\ [][BrowserNext]_vars

(***************************************************************************)
(* Properties                                                              *)
(***************************************************************************)
Matching == getMatchingProviders(providers, call.url)

(* C1: after any sequence of addProvider calls, none included, checkUrl(url)
   is true exactly when the own pattern of some registered provider matches
   url, that is when getMatchingProviders(url) is not empty. *)
C1_CheckUrlIffSomeProviderMatches ==
    call.op = "checkUrl" => (call.ret <=> Matching # <<>>)

NeutralIdentity(info) ==
    /\ info.name = "" /\ info.key = ""
    /\ info.groups = <<>> /\ DOMAIN info.columns = {}

(* C2 as stated: for a URL that no registered provider's pattern matches,
   Registry.parseUrl returns the neutral provider identity with data the
   empty sequence, whatever query parameters the URL carries. *)
C2_NoMatchGivesEmptyData ==
    (call.op = "parseUrl" /\ Matching = <<>>) =>
        /\ ~call.ret.thrown
        /\ NeutralIdentity(call.ret.provider)
        /\ call.ret.data = <<>>

(* C2 as amended: for a URL that no registered provider's pattern matches,
   Registry.parseUrl returns the neutral provider identity; for a parseable
   URL and a body that decodes, data holds one field per URL query parameter
   and per decoded body pair, in order, with the parameter's name as key, its
   value and the group "other"; otherwise data is empty and error is set. *)
C2_NoMatchGivesNeutralFields ==
    (call.op = "parseUrl" /\ Matching = <<>>) =>
        /\ ~call.ret.thrown
        /\ NeutralIdentity(call.ret.provider)
        /\ IF call.url.abs /\ ~parsePostDataThrows(call.body)
           THEN LET params == call.url.query
                              \o [i \in 1 .. Len(parsePostData(call.body)) |->
                                    Param(parsePostData(call.body)[i].k,
                                          JsString(parsePostData(call.body)[i].v))]
                IN /\ call.ret.error = Absent
                   /\ Len(call.ret.data) = Len(params)
                   /\ \A i \in 1 .. Len(params) :
                          /\ call.ret.data[i].key = Join(params[i].k)
                          /\ call.ret.data[i].value = params[i].v
                          /\ call.ret.data[i].group = "other"
                          /\ ~call.ret.data[i].hidden
           ELSE call.ret.data = <<>> /\ call.ret.error # Absent

(* A registry holds a provider, and a URL with two query parameters that no
   provider matches is parsed into two fields. *)
C2_Witness ==
    /\ call.op = "parseUrl" /\ call.url = PageUrl /\ call.body = Undefined
    /\ providers # <<>> /\ Matching = <<>>
    /\ Len(call.ret.data) = 2

DistinctKeys(ps) ==
    \A i, j \in 1 .. Len(ps) : i # j => ProviderKey(ps[i]) # ProviderKey(ps[j])

(* C3: after addProvider calls with distinct keys, getMatchingProviders(url)
   returns exactly the registered providers whose own pattern matches url,
   each once, in the order they were registered. *)
C3_MatchingInRegistrationOrder ==
    (call.op = "getMatchingProviders" /\ DistinctKeys(added)) =>
        call.ret = SelectSeq(added, LAMBDA p : ProviderCheckUrl(p, call.url))

(* Two providers match one URL and come back in registration order, and a
   URL that one of them alone matches gives that one. *)
C3_Witness ==
    /\ call.op = "getMatchingProviders"
    /\ added = <<AdobeWebSdkProvider, GoogleTagManagerProvider>>
    /\ call.url = GtmInteractUrl
    /\ call.ret = <<AdobeWebSdkProvider, GoogleTagManagerProvider>>

(* C4: parseUrlWithAllProviders(url, body) returns one ParseResult per
   provider of getMatchingProviders(url), in the same order, and when that
   sequence is not empty Registry.parseUrl(url, body) equals its first
   element. *)
C4_OneResultPerMatchingProvider ==
    call.op = "parseUrlWithAllProviders" =>
        /\ ~call.ret.thrown
        /\ Len(call.ret.results) = Len(Matching)
        /\ \A i \in 1 .. Len(Matching) :
               call.ret.results[i].provider.key = ProviderKey(Matching[i])
        /\ Matching # <<>> =>
               RegistryParseUrl(providers, call.url, call.body) = call.ret.results[1]

(* C5: for every provider class, parseUrl on a string that is no parseable
   absolute URL returns a ParseResult with data = [] and an error string,
   and never throws. *)
C5_MalformedUrlIsReported ==
    (call.op = "provider.parseUrl" /\ ~call.url.abs) =>
        /\ ~call.ret.thrown
        /\ call.ret.data = <<>>
        /\ call.ret.error # Absent

(* The results of provider p for a URL and a body are still produced: p's
   parseUrl returns, and its result is among the given results. *)
Returns(p, u, b) == ~parseUrl(p, u, DefaultBody(b)).thrown

(* C6: when several providers match one request and the parseUrl of one of
   them throws, the results of the others are still produced, by
   parseUrlWithAllProviders, by the request loop of scan-marketing-stack and
   by processAnalyticsBeacons, and no exception leaves the registry call. *)
C6_OtherProvidersStillParsed ==
    /\ call.op = "parseUrlWithAllProviders" =>
        /\ ~call.ret.thrown
        /\ \A i \in 1 .. Len(Matching) :
               Returns(Matching[i], call.url, call.body) =>
                   \E j \in 1 .. Len(call.ret.results) :
                       call.ret.results[j] =
                           parseUrl(Matching[i], call.url, DefaultBody(call.body))
    /\ call.op = "scan" =>
        \A r \in 1 .. Len(call.requests) :
            LET u == call.requests[r].url
                m == getMatchingProviders(providers, u)
            IN \A i \in 1 .. Len(m) :
                   Returns(m[i], u, Undefined) =>
                       \E j \in 1 .. Len(call.ret) :
                           /\ call.ret[j].url = u
                           /\ call.ret[j].provider = ProviderName(m[i])
                           /\ call.ret[j].data = parseUrl(m[i], u, DefaultBody(Undefined)).data
    /\ (call.op = "processAnalyticsBeacons" /\ call.options = NoOptions) =>
        \A r \in 1 .. Len(call.requests) :
            LET u == call.requests[r].url
                b == call.requests[r].postData
                m == getMatchingProviders(providers, u)
            IN \A i \in 1 .. Len(m) :
                   Returns(m[i], u, b) =>
                       \E j \in 1 .. Len(call.ret.beacons) :
                           /\ call.ret.beacons[j].url = u
                           /\ call.ret.beacons[j].providerKey = ProviderKey(m[i])
                           /\ call.ret.beacons[j].parsedData =
                                  parseUrl(m[i], u, DefaultBody(b)).data

(* The value half of a form-data segment: what stands between its first and
   its second "=". *)
ValueHalf(segment) ==
    IF Len(Split(segment, "=")) > 1 THEN Split(segment, "=")[2] ELSE <<>>

(* A string body that is a list of key=value segments with well-formed
   percent escapes. *)
WellFormedForm(text) ==
    \A i \in 1 .. Len(Split(text, "&")) :
        /\ Len(Split(Split(text, "&")[i], "=")) > 1
        /\ DecodeOk(ValueHalf(Split(text, "&")[i]))

(* A string body that is neither JSON text nor well-formed form data. *)
InvalidString(b) ==
    /\ b.kind = "string" /\ ~b.json /\ b.text # <<>>
    /\ ~WellFormedForm(b.text)

(* A body that cannot be decoded: such a string, or an object with an entry
   that has no string form. *)
Undecodable(b) == InvalidString(b) \/ parsePostDataThrows(b)

InheritsParseUrl(p) == p # AdobeWebSdkProvider

(* C7: for every parseable URL and every body accepted at the interface, a
   body that cannot be decoded does not fail the parse: the result has no
   error and its data still holds the fields of all non-hidden URL query
   parameters. *)
C7_UndecodableBodyKeepsQueryFields ==
    (/\ call.op = "provider.parseUrl" /\ InheritsParseUrl(call.provider)
     /\ call.url.abs /\ Undecodable(call.body)) =>
        /\ ~call.ret.thrown
        /\ call.ret.error = Absent
        /\ LET q == ParamFields(call.provider, call.url.query)
           IN /\ Len(call.ret.data) >= Len(q)
              /\ SubSeq(call.ret.data, 1, Len(q)) = q

InvalidStringCall ==
    /\ call.op = "provider.parseUrl" /\ InheritsParseUrl(call.provider)
    /\ call.url.abs /\ InvalidString(call.body)

(* C8 as stated: for a string body that is neither valid JSON nor valid form
   data, parsePostData throws nothing and returns zero decoded pairs, so the
   ParseResult holds only the URL query fields and the custom-hook fields. *)
C8_InvalidBodyGivesNoPairs ==
    InvalidStringCall =>
        /\ ~call.ret.thrown
        /\ call.ret.error = Absent
        /\ call.ret.data = ParamFields(call.provider, call.url.query)
                           \o handleCustom(call.provider, call.url, call.url.query)

(* The number of leading segments whose value half decodes. *)
Decoded(segments) ==
    Cardinality({n \in 1 .. Len(segments) :
                    \A i \in 1 .. n : DecodeOk(ValueHalf(segments[i]))})

(* C8 as amended: for such a body parsePostData throws nothing and returns
   one pair for every "&"-separated segment that precedes the first segment
   whose value is no valid percent-encoding: the text before the segment's
   first "=" with the decoded text after it, or with "" when there is none
   (for "{{{not valid" the one pair ("{{{not valid", "")).  The ParseResult
   holds the URL query fields, then the fields of these pairs, then the
   custom-hook fields. *)
C8_InvalidBodyGivesSegmentPairs ==
    InvalidStringCall =>
        LET segments == Split(call.body.text, "&")
            pairs == [i \in 1 .. Decoded(segments) |->
                        Param(Split(segments[i], "=")[1],
                              decodeURIComponent(ValueHalf(segments[i])))]
        IN /\ ~call.ret.thrown
           /\ call.ret.error = Absent
           /\ call.ret.data =
                  ParamFields(call.provider, call.url.query \o pairs)
                  \o handleCustom(call.provider, call.url, call.url.query \o pairs)

(* The body "{{{not valid" comes back as one field, after the query field. *)
C8_Witness ==
    /\ InvalidStringCall
    /\ call.provider = GoogleTagManagerProvider
    /\ call.url = GtmUrl /\ call.body = NotValidBody
    /\ call.ret.data[1].key = "id"
    /\ call.ret.data[2] = Field("{{{not valid", "{{{not valid", "", "other")

(* The field the catalog prescribes for a parameter: none when the catalog
   marks the key hidden, the catalog's name and group when it knows the key,
   the key itself and "other" when it does not. *)
CatalogFields(p, name, value) ==
    IF Join(name) \in DOMAIN keys(p)
    THEN (IF keys(p)[Join(name)].hidden THEN <<>>
          ELSE <<Field(Join(name), keys(p)[Join(name)].name, value,
                       keys(p)[Join(name)].group)>>)
    ELSE <<Field(Join(name), Join(name), value, "other")>>

RECURSIVE CatalogFieldsOf(_, _)
CatalogFieldsOf(p, params) ==
    IF params = <<>> THEN <<>>
    ELSE CatalogFields(p, Head(params).k, Head(params).v)
         \o CatalogFieldsOf(p, Tail(params))

(* C9: for a provider without a per-parameter override every parameter
   yields no field when the catalog marks its key hidden, the catalog's name
   and group when the key is known and visible, and {key, field: key, value,
   group: "other"} when the key is unknown. *)
C9_ParameterFieldsFollowCatalog ==
    (/\ call.op = "provider.parseUrl" /\ InheritsParseUrl(call.provider)
     /\ ~call.ret.thrown /\ call.ret.error = Absent) =>
        LET q == CatalogFieldsOf(call.provider, call.url.query)
        IN /\ Len(call.ret.data) >= Len(q)
           /\ SubSeq(call.ret.data, 1, Len(q)) = q

(* C10: in every ParseResult of BaseProvider.parseUrl the fields of the URL
   query parameters come first in URL order, then the fields of the body
   pairs in decoder order, then the fields of the custom hook in the order
   the hook returned them. *)
C10_QueryThenBodyThenCustom ==
    (/\ call.op = "provider.parseUrl" /\ InheritsParseUrl(call.provider)
     /\ ~call.ret.thrown /\ call.ret.error = Absent) =>
        LET pairs == parsePostData(call.body)
            body == [i \in 1 .. Len(pairs) |-> Param(pairs[i].k, JsString(pairs[i].v))]
            q == ParamFields(call.provider, call.url.query)
            b == ParamFields(call.provider, body)
            c == handleCustom(call.provider, call.url, call.url.query \o body)
        IN /\ Len(call.ret.data) = Len(q) + Len(b) + Len(c)
           /\ SubSeq(call.ret.data, 1, Len(q)) = q
           /\ SubSeq(call.ret.data, Len(q) + 1, Len(q) + Len(b)) = b
           /\ SubSeq(call.ret.data, Len(q) + Len(b) + 1, Len(call.ret.data)) = c

(* A result with fields of all three origins. *)
C10_Witness ==
    /\ call.op = "provider.parseUrl"
    /\ call.provider = GoogleTagManagerProvider
    /\ call.url = GtmHiddenUrl /\ call.body = FormBody
    /\ call.ret.error = Absent
    /\ call.ret.data[1].key = "zz"
    /\ call.ret.data[4].key = "id" /\ call.ret.data[4].value = "7"
    /\ call.ret.data[Len(call.ret.data)].key = "scriptType"

JsonBodyCall ==
    /\ call.op = "parsePostData"
    /\ call.body.kind = "string" /\ call.body.json

RECURSIVE Terminals(_, _, _)
(* The pairs a JSON value calls for: one per scalar leaf, keyed by its path,
   and one with value "" per empty array or empty object; whole tells
   whether an empty object with the empty path counts. *)
Terminals(v, path, whole) ==
    IF ~IsObject(v) THEN {Pair(path, v)}
    ELSE IF v.t = "arr"
    THEN (IF v.items = <<>> THEN {Pair(path, JStr(""))}
          ELSE UNION {Terminals(v.items[i], path \o <<"[", ToString(i - 1), "]">>, whole) :
                        i \in 1 .. Len(v.items)})
    ELSE (IF v.members = <<>>
          THEN (IF whole \/ path # <<>> THEN {Pair(path, JStr(""))} ELSE {})
          ELSE UNION {Terminals(v.members[i].v,
                                IF path = <<>> THEN v.members[i].k
                                ELSE path \o <<".">> \o v.members[i].k, whole) :
                        i \in 1 .. Len(v.members)})

ExactlyThePairs(pairs, expected) ==
    /\ {pairs[i] : i \in 1 .. Len(pairs)} = expected
    /\ Len(pairs) = Cardinality(expected)

(* C11 as stated: for every JSON body parsePostData emits exactly one pair
   per scalar leaf, keyed by its path and carrying the leaf value, and one
   pair with value "" per empty array or empty object, the whole body
   included, and no other pair. *)
C11_OnePairPerTerminal ==
    JsonBodyCall =>
        /\ ~call.ret.thrown
        /\ ExactlyThePairs(call.ret.pairs, Terminals(call.body.value, <<>>, TRUE))

(* C11 as amended: the same, except that an empty object with the empty
   path, such as the whole body {}, emits no pair. *)
C11_OnePairPerTerminalBelowRoot ==
    JsonBodyCall =>
        /\ ~call.ret.thrown
        /\ ExactlyThePairs(call.ret.pairs, Terminals(call.body.value, <<>>, FALSE))

(* A body with scalar leaves, a nested empty object and array elements is
   flattened into its three pairs. *)
C11_Witness ==
    /\ JsonBodyCall /\ call.body = JsonBody
    /\ call.ret.pairs = <<Pair(<<"a", "[", "0", "]">>, JNum(1)),
                          Pair(<<"a", "[", "1", "]">>, JStr("")),
                          Pair(<<"b", ".", "c">>, JNull)>>

RECURSIVE ValueDepth(_)
(* How deep a JSON value nests: 0 for a scalar. *)
ValueDepth(v) ==
    IF ~IsObject(v) THEN 0
    ELSE LET below == IF v.t = "arr"
                      THEN {ValueDepth(v.items[i]) : i \in 1 .. Len(v.items)}
                      ELSE {ValueDepth(v.members[i].v) : i \in 1 .. Len(v.members)}
         IN 1 + (IF below = {} THEN 0 ELSE CHOOSE d \in below : \A e \in below : e <= d)

(* The number of property names and array indexes in a path. *)
PathDepth(path) ==
    IF path = <<>> THEN 0
    ELSE 1 + Cardinality({i \in 2 .. Len(path) : path[i] \in {".", "["}})

(* C12: the body decoder caps its recursion: for a JSON body nested deeper
   than the maximum depth (10) it does not throw, emits a truncation
   sentinel pair at the cap and emits no pair for any value below the cap. *)
C12_DecoderCapsDepth ==
    (JsonBodyCall /\ ValueDepth(call.body.value) > XdmMaxDepth) =>
        /\ ~call.ret.thrown
        /\ call.ret.pairs # <<>>
        /\ \A i \in 1 .. Len(call.ret.pairs) :
               PathDepth(call.ret.pairs[i].k) <= XdmMaxDepth + 1

ReadOps == {"checkUrl", "getMatchingProviders", "getPattern", "parseUrl",
            "parseUrlWithAllProviders"}

(* C13: parsing is deterministic and leaves the registry untouched: no
   checkUrl, getMatchingProviders, getPattern, parseUrl or
   parseUrlWithAllProviders call changes providers, defaultPatterns or
   defaultPatternRegex, and the result a parse call returns is the result the
   same call returns from the state it leaves, so that two calls with the
   same (url, body) and only such calls in between return identical
   results. *)
C13_ParsingIsRepeatable ==
    [][call'.op \in ReadOps =>
        /\ providers' = providers
        /\ defaultPatterns' = defaultPatterns
        /\ defaultPatternRegex' = defaultPatternRegex
        /\ call'.op = "parseUrl" =>
               call'.ret = RegistryParseUrl(providers', call'.url, call'.body)
        /\ call'.op = "parseUrlWithAllProviders" =>
               call'.ret = parseUrlWithAllProviders(providers', call'.url, call'.body)]_vars

(* A URL that two registered providers match has been parsed by the second
   of them too, which a registry reordered by a parse would not repeat. *)
C13_Witness ==
    /\ call.op = "parseUrl"
    /\ added = <<AdobeWebSdkProvider, GoogleTagManagerProvider>>
    /\ call.url = GtmInteractUrl /\ call.body = EventsBody
    /\ ~call.ret.thrown
    /\ call.ret.provider.key = ProviderKey(AdobeWebSdkProvider)

(* A Facebook Pixel request parsed by the Facebook Pixel provider: the
   provider's pattern matches its URL. *)
FacebookCall ==
    /\ call.op = "provider.parseUrl"
    /\ call.provider = FacebookPixelProvider
    /\ call.url.abs
    /\ Test(ProviderPattern(FacebookPixelProvider), Raw(call.url))

(* A parameter name of the form cd[<name>]. *)
IsCustomDataName(name) ==
    Len(name) >= 4 /\ name[1] = "cd" /\ name[2] = "[" /\ name[Len(name)] = "]"

HiddenRequestTypes(data) ==
    {i \in 1 .. Len(data) : data[i].key = "requestType" /\ data[i].hidden}

(* C14: for every Facebook Pixel request, each query parameter named
   cd[<name>] yields a field "Custom Data: <name>" with the parameter's value
   in group "customdata", and the result holds exactly one hidden requestType
   field, whose value is the ev parameter when ev is present and non-empty
   and "PageView" otherwise. *)
C14_FacebookCustomDataAndRequestType ==
    FacebookCall =>
        LET q == call.url.query
            data == call.ret.data
            evs == {i \in 1 .. Len(q) : q[i].k = <<"ev">>}
            ev == IF evs = {} THEN ""
                  ELSE q[CHOOSE i \in evs : \A h \in evs : i <= h].v
        IN /\ \A i \in 1 .. Len(q) :
                  IsCustomDataName(q[i].k) =>
                      \E j \in 1 .. Len(data) :
                          data[j] = [key |-> Join(q[i].k),
                                     field |-> "Custom Data: "
                                         \o Join(SubSeq(q[i].k, 3, Len(q[i].k) - 1)),
                                     value |-> q[i].v, group |-> "customdata",
                                     hidden |-> FALSE]
           /\ Cardinality(HiddenRequestTypes(data)) = 1
           /\ \A j \in HiddenRequestTypes(data) :
                  data[j].value = (IF ev # "" THEN ev ELSE "PageView")

(* A Facebook Pixel request whose ev is empty and that carries a
   cd[a][b] parameter has been parsed. *)
C14_Witness ==
    /\ FacebookCall
    /\ call.url = FbPageViewUrl
    /\ \E j \in 1 .. Len(call.ret.data) :
           /\ call.ret.data[j].field = "Custom Data: a][b"
           /\ call.ret.data[j].value = "1"
    /\ \E j \in HiddenRequestTypes(call.ret.data) :
           call.ret.data[j].value = "PageView"

(* The parameters whose value a provider's hooks decode as JSON. *)
JsonParameters(p) ==
    CASE p = FacebookPixelProvider -> {<<"cd">>, <<"ud">>}
      [] p = TikTokProvider -> {<<"data">>}
      [] p = PinterestProvider -> {<<"ed">>}

(* The field names that carry the "(unparseable)" flag. *)
UnparseableFlags == {"Custom Data (unparseable)", "User Data (unparseable)"}

(* A pixel provider has parsed a request of its own. *)
PixelCall ==
    /\ call.op = "provider.parseUrl"
    /\ call.provider \in PixelClasses
    /\ call.url.abs
    /\ Test(ProviderPattern(call.provider), Raw(call.url))

(* C15: for every hook that decodes a JSON value embedded in a parameter
   (Facebook cd and ud, TikTok data, Pinterest ed), a value that fails to
   parse does not make the parse throw, produces a field flagged
   "(unparseable)" that carries the raw value, and the hidden requestType
   field is still produced. *)
C15_UnparseableValueIsFlagged ==
    PixelCall =>
        \A k \in JsonParameters(call.provider) :
            (Has(call.url.query, k) /\ JsonParseThrows(Get(call.url.query, k))) =>
                /\ ~call.ret.thrown
                /\ \E j \in 1 .. Len(call.ret.data) :
                       /\ call.ret.data[j].key = Join(k)
                       /\ call.ret.data[j].field \in UnparseableFlags
                       /\ call.ret.data[j].value = Get(call.url.query, k)
                /\ HiddenRequestTypes(call.ret.data) # {}

RECURSIVE XdmLeaves(_, _, _)
(* The scalar leaves of a JSON value, each with its path (a member appends
   ".key", an item "[index]") and the key of the member that holds it. *)
XdmLeaves(v, path, key) ==
    CASE v.t = "obj" ->
            UNION {XdmLeaves(v.members[i].v, path \o <<".">> \o v.members[i].k,
                             v.members[i].k) : i \in 1 .. Len(v.members)}
      [] v.t = "arr" ->
            UNION {XdmLeaves(v.items[i], path \o <<"[", ToString(i - 1), "]">>, key)
                       : i \in 1 .. Len(v.items)}
      [] v.t = "null" -> {}
      [] OTHER -> {[path |-> path, key |-> key]}

(* The group the path of a leaf decides. *)
PathGroup(path, key) ==
    IF HasWord(path, "analytics") THEN "analytics"
    ELSE IF HasWord(path, "target") THEN "target"
    ELSE IF HasWord(path, "identity") \/ key = <<"ECID">> THEN "identity"
    ELSE "xdm"

(* The Adobe Web SDK provider has parsed a request whose body holds an
   events array. *)
WebSdkCall ==
    /\ call.op = "provider.parseUrl"
    /\ call.provider = AdobeWebSdkProvider
    /\ call.url.abs
    /\ call.body \in XdmBodies \cup {EventsBody}

(* C16: for an Adobe Web SDK body, every event i with an eventType yields a
   field keyed events[i].eventType in group "general", and every scalar leaf
   under events[i].xdm yields exactly one field keyed by its path, whose
   group is "analytics" if the path contains "analytics", else "target" if it
   contains "target", else "identity" if it contains "identity" or the leaf
   key is ECID, else "xdm". *)
C16_EventTypeAndXdmLeafFields ==
    WebSdkCall =>
        LET events == GetMember(call.body.value, <<"events">>).items
            data == call.ret.data
            at(i) == <<"events", "[", ToString(i - 1), "]">>
        IN \A i \in 1 .. Len(events) :
              /\ JsTruthy(GetMember(events[i], <<"eventType">>)) =>
                     \E j \in 1 .. Len(data) :
                         /\ data[j].key = Join(at(i)) \o ".eventType"
                         /\ data[j].group = "general"
              /\ \A leaf \in XdmLeaves(GetMember(events[i], <<"xdm">>),
                                        at(i) \o <<".", "xdm">>, <<"xdm">>) :
                     /\ Cardinality({j \in 1 .. Len(data) :
                                        data[j].key = Join(leaf.path)}) = 1
                     /\ \A j \in 1 .. Len(data) :
                            data[j].key = Join(leaf.path) =>
                                data[j].group = PathGroup(leaf.path, leaf.key)

(* C17: in the registry built by initializeProviders, a request to an Adobe
   Web SDK endpoint (a URL containing /ee/v1/interact) is matched to the
   provider with key ADOBEWEBSDK. *)
C17_InteractMatchedToWebSdk ==
    (/\ call.op = "getMatchingProviders"
     /\ added = InitialProviders
     /\ Includes(call.url.path, InteractPath)) =>
        \E i \in 1 .. Len(call.ret) : ProviderKey(call.ret[i]) = "ADOBEWEBSDK"

(* C18: processAnalyticsBeacons called with the default configuration of
   captureAnalyticsBeacons (providerTypes = ['analytics']) returns a beacon
   for every captured request and every registered provider of the
   analytics category whose pattern matches the request URL. *)
C18_DefaultOptionsKeepAnalyticsBeacons ==
    (call.op = "processAnalyticsBeacons" /\ call.options = AnalyticsOnly) =>
        \A i \in 1 .. Len(call.requests), k \in 1 .. Len(providers) :
            (/\ call.requests[i].url.abs
             /\ RawType(providers[k]) = "analytics"
             /\ ProviderCheckUrl(providers[k], call.requests[i].url)) =>
                \E j \in 1 .. Len(call.ret.beacons) :
                    /\ call.ret.beacons[j].url = call.requests[i].url
                    /\ call.ret.beacons[j].providerKey = ProviderKey(providers[k])

(* The list the category of a provider belongs in. *)
CategoryOf(p) ==
    CASE RawType(p) = "analytics" -> "analytics"
      [] RawType(p) = "marketing" -> "advertising"
      [] RawType(p) = "tagmanager" -> "tagmanagers"
      [] OTHER -> "other"

(* The names in a list of detections. *)
Names(detections) == {detections[i].name : i \in 1 .. Len(detections)}

(* C19: in scan-marketing-stack every technology detected from a network
   request is placed in the category of its provider (analytics providers
   under analytics, marketing providers under advertising, tag managers
   under tagmanagers, and only providers of other types under other), and
   each provider appears at most once among the network-request
   detections. *)
C19_DetectionsFollowProviderType ==
    call.op = "scan" =>
        /\ \A i \in 1 .. Len(call.ret), k \in 1 .. Len(providers) :
               call.ret[i].provider = ProviderName(providers[k]) =>
                   /\ ProviderName(providers[k])
                          \in Names(call.detectedTech[CategoryOf(providers[k])])
                   /\ \A c \in DOMAIN call.detectedTech \ {CategoryOf(providers[k])} :
                          ProviderName(providers[k]) \notin Names(call.detectedTech[c])
        /\ \A c \in DOMAIN call.detectedTech :
               \A i, j \in 1 .. Len(call.detectedTech[c]) :
                   call.detectedTech[c][i].name = call.detectedTech[c][j].name => i = j

(* C20: when beacons are captured with includeBody = true, the body of
   every recorded POST request is the second argument of the matching
   provider's parseUrl, so that the beacon's parsedData is what the provider
   parses from the URL and that body. *)
C20_CapturedBodyIsParsed ==
    (call.op = "captureAnalyticsBeacons" /\ Config(call.options).includeBody) =>
        \A i \in 1 .. Len(call.pageRequests), j \in 1 .. Len(call.ret.beacons),
           k \in 1 .. Len(providers) :
            (/\ call.pageRequests[i].request.method = "POST"
             /\ call.ret.beacons[j].url = call.pageRequests[i].request.url
             /\ call.ret.beacons[j].providerKey = ProviderKey(providers[k])) =>
                call.ret.beacons[j].parsedData =
                    parseUrl(providers[k], call.pageRequests[i].request.url,
                             call.pageRequests[i].request.postData).data

(* The requests an array holds. *)
Held(requests) == {requests[i] : i \in 1 .. Len(requests)}

(* C21: a call of setupRequestInterception on a page that is already marked
   returns the array the installed handler fills, so that the requests the
   page emits after the click of captureInteractionBeacons, blocked ones
   aside, are among the requests it hands to processAnalyticsBeacons. *)
C21_SetupReturnsTheHandlersArray ==
    /\ (page.interceptionSetup /\ returned # <<>>) =>
           returned[Len(returned)] = page.listeners[1].requests
    /\ tool.pc = "interaction" =>
           \A i \in 1 .. Len(emitted) :
               (/\ emitted[i].pc = "click"
                /\ requestHandler(BlockResources, emitted[i].request).push) =>
                   Recorded(emitted[i].request) \in Held(tool.interaction)

(* The container id a request for a container carries: the id parameter,
   or else the id in the name of the script. *)
ContainerIdOf(u) ==
    IF Has(u.query, <<"id">>) THEN Get(u.query, <<"id">>)
    ELSE "GTM-" \o u.path[Len(u.path) - 2]

(* C22: with the provider of Google Tag Manager registered, the registry
   parses every request for a container, a request without a body, into a Container ID field that
   holds the id parameter or else "GTM-" and the id in the script's name,
   and a Script Type field that names the script by the path. *)
C22_ContainerIdAndScriptType ==
    (/\ call.op = "parseUrl"
     /\ call.url \in ContainerUrls
     /\ call.body = Undefined
     /\ \E k \in 1 .. Len(providers) : providers[k] = GoogleTagManagerProvider) =>
        /\ ~call.ret.thrown
        /\ \E i \in 1 .. Len(call.ret.data) :
               /\ call.ret.data[i].key = "id"
               /\ call.ret.data[i].field = "Container ID"
               /\ call.ret.data[i].value = ContainerIdOf(call.url)
        /\ \E i \in 1 .. Len(call.ret.data) :
               /\ call.ret.data[i].key = "scriptType"
               /\ call.ret.data[i].value = GtmScriptType(call.url.path)

RECURSIVE Sites(_, _, _)
(* The places of an xdm value with the number of objects between each and
   the root: the objects, an item of an array of objects counting as one
   level below the object that holds the array, and the leaves, an array
   that starts with a scalar being one leaf. *)
Sites(v, path, level) ==
    {[path |-> path, level |-> level, object |-> TRUE]}
    \cup UNION {
        LET at == path \o <<".">> \o v.members[i].k
            value == v.members[i].v
        IN CASE value.t = "obj" -> Sites(value, at, level + 1)
             [] value.t = "arr" /\ value.items # <<>>
                    /\ value.items[1].t = "obj" ->
                  UNION {Sites(value.items[n], at \o <<"[", ToString(n - 1), "]">>,
                               level + 1) : n \in 1 .. Len(value.items)}
             [] OTHER -> {[path |-> at, level |-> level, object |-> FALSE]}
        : i \in 1 .. Len(v.members)}

(* The places of the xdm of every event of the body parsed. *)
XdmSites ==
    LET events == GetMember(call.body.value, <<"events">>).items
    IN UNION {Sites(GetMember(events[i], <<"xdm">>),
                    <<"events", "[", ToString(i - 1), "]", ".", "xdm">>, 0)
                  : i \in 1 .. Len(events)}

(* The fields of the result with a key. *)
Keyed(key) == {j \in 1 .. Len(call.ret.data) : call.ret.data[j].key = key}

(* C23: processXdmObject stops at depth 10: for a body of the Adobe Web
   SDK the parse does not throw; no place more than 10 objects below the
   root of an xdm has a field; every object 11 objects below the root has
   one sentinel field, keyed by its path and maxDepthExceeded, and a
   sentinel stands for such an object only; and a leaf of an object 10
   objects below the root still has its field. *)
C23_XdmDepthIsCapped ==
    WebSdkCall =>
        /\ ~call.ret.thrown
        /\ call.ret.error = Absent
        /\ \A s \in XdmSites :
               /\ s.level > XdmMaxDepth => Keyed(Join(s.path)) = {}
               /\ (s.object /\ s.level = XdmMaxDepth + 1) =>
                      Cardinality(Keyed(Join(s.path) \o ".maxDepthExceeded")) = 1
               /\ (~s.object /\ s.level = XdmMaxDepth) =>
                      Cardinality(Keyed(Join(s.path))) = 1
        /\ \A j \in 1 .. Len(call.ret.data) :
               call.ret.data[j].value = "Object too deep to display fully" =>
                   \E s \in XdmSites :
                       /\ s.object /\ s.level = XdmMaxDepth + 1
                       /\ call.ret.data[j].key = Join(s.path) \o ".maxDepthExceeded"

(* The xdm with a leaf at the deepest level and two objects below it has
   been parsed into the leaf's field and two sentinels. *)
C23_Witness ==
    /\ WebSdkCall
    /\ call.body = XdmDeepArrayBody
    /\ \E s \in XdmSites : ~s.object /\ s.level = XdmMaxDepth
                           /\ Keyed(Join(s.path)) # {}
    /\ Cardinality({j \in 1 .. Len(call.ret.data) :
           call.ret.data[j].value = "Object too deep to display fully"}) = 2

(* C24: the result of parsing a Facebook Pixel request does not depend on
   the value of a masked key of its ud parameter: the request whose ud
   differs in the value of em alone is parsed into the same result. *)
C24_UserDataIsMasked ==
    (/\ FacebookCall
     /\ call.url = FbUrl(JsonStringify(CdValue), JsonStringify(UdValue))) =>
        call.ret = parseUrl(FacebookPixelProvider,
                            FbUrl(JsonStringify(CdValue), JsonStringify(UdOtherValue)),
                            DefaultBody(call.body))

(***************************************************************************)
(* C25: for every beacon returned by processAnalyticsBeacons, requestType  *)
(* is the value of the field whose key the beacon's provider names in      *)
(* columnMapping.requestType, and "Unknown" only when the parsed data      *)
(* holds no such field.                                                    *)
(***************************************************************************)
ProviderOfKey(key) ==
    CHOOSE p \in {InitialProviders[i] : i \in 1 .. Len(InitialProviders)}
                    \cup Registrable : ProviderKey(p) = key

(* The positions of the designated request-type field in a beacon's data. *)
Designated(beacon) ==
    {i \in 1 .. Len(beacon.parsedData) :
        beacon.parsedData[i].key = columnMapping(ProviderOfKey(beacon.providerKey)).requestType}

C25_RequestTypeIsTheDesignatedField ==
    call.op = "processAnalyticsBeacons" =>
        \A n \in 1 .. Len(call.ret.beacons) :
            LET beacon == call.ret.beacons[n]
            IN IF Designated(beacon) # {}
               THEN \E i \in Designated(beacon) :
                        /\ \A j \in Designated(beacon) : i <= j
                        /\ beacon.requestType = beacon.parsedData[i].value
               ELSE beacon.requestType = "Unknown"

(***************************************************************************)
(* C26: the pattern returned by getPattern(providerInfo) matches a URL     *)
(* exactly when the URL matches, ignoring case, the pattern of a           *)
(* registered provider that is enabled (no entry for its key, or an entry  *)
(* that enables it); with every provider disabled it matches no URL.       *)
(***************************************************************************)
EnabledProviders(providerInfo) ==
    {providers[i] : i \in {j \in 1 .. Len(providers) :
        \/ ProviderKey(providers[j]) \notin DOMAIN providerInfo
        \/ providerInfo[ProviderKey(providers[j])]}}

C26_PatternOfTheEnabledProviders ==
    call.op = "getPattern" =>
        \A u \in MatchUrls :
            RegistryCheckUrl(call.ret, u)
                <=> \E p \in EnabledProviders(call.providerInfo) :
                        RegistryCheckUrl(NewRegExp(<<PatternSource(p)>>, TRUE), u)

(***************************************************************************)
(* C27: after any sequence of addProvider calls, reused keys included, the *)
(* pattern list holds exactly the patterns of the providers the registry   *)
(* holds: the list and the provider map have the same size, every pattern  *)
(* occurs once for each holder of it, and the combined pattern is built    *)
(* from that list.                                                         *)
(***************************************************************************)
Occurrences(seq, x) == Cardinality({i \in 1 .. Len(seq) : seq[i] = x})

C27_PatternListFollowsTheProviders ==
    /\ Len(defaultPatterns) = Len(providers)
    /\ \A i \in 1 .. Len(defaultPatterns) :
           Occurrences(defaultPatterns, defaultPatterns[i])
               = Occurrences([j \in 1 .. Len(providers) |-> ProviderPattern(providers[j])],
                             defaultPatterns[i])
    /\ added # <<>> => defaultPatternRegex = NewRegExp(Sources(defaultPatterns), TRUE)

(***************************************************************************)
(* C28: every request delivered to the installed request handler is        *)
(* resolved exactly once: aborted and not recorded when its resource type  *)
(* is blocked, recorded and continued otherwise, a request with a redirect *)
(* chain included; none is left unresolved and none is resolved twice.     *)
(***************************************************************************)
C28_DeliveredRequestResolvedOnce ==
    \A i \in 1 .. Len(emitted) :
        emitted[i].handlers > 0 =>
            LET did == requestHandler(BlockResources, emitted[i].request)
            IN /\ emitted[i].aborts + emitted[i].continues = 1
               /\ IF emitted[i].request.resourceType \in BlockResources
                  THEN emitted[i].aborts = 1 /\ ~did.push
                  ELSE emitted[i].continues = 1 /\ did.push

(***************************************************************************)
(* C29: under any interleaving of tool invocations and shutdown,           *)
(* initBrowser keeps at most one launched browser alive (two calls that    *)
(* overlap while no browser exists do not both launch one), every browser  *)
(* alive is the one the server references, and cleanup leaves no launched  *)
(* browser alive.                                                          *)
(***************************************************************************)
C29_AtMostOneBrowserAlive ==
    /\ Cardinality(Alive(browsers)) <= 1
    /\ \A b \in Alive(browsers) : b = browser
    /\ cleanup.pc = "exit" => Alive(browsers) = {}
====
